---- MODULE Spec2Model ----
(***************************************************************************)
(* A model of the lox-cpp bytecode interpreter: the single-pass compiler   *)
(* (src/src/compiler.cpp), the stack VM (src/src/vm.cpp, vm.hpp), the      *)
(* mark-and-sweep collector (src/src/gc.cpp, gc.hpp) and the chunk         *)
(* (src/src/chunk.cpp).                                                    *)
(*                                                                         *)
(* Heap objects live in an arena keyed by an integer address; operator new *)
(* is modelled as handing out a fresh address on every allocation.         *)
(***************************************************************************)
EXTENDS Integers, Sequences, FiniteSets, TLC

VARIABLES
  gc_debug,       \* the build: TRUE when LOX_GC_DEBUG is defined (gc.cpp:24)
  source,         \* the source handed to interpret(), as a sequence of tokens
  pc,             \* position of interpret(): "natives", "compile", "run", "done"
  gc,             \* VM::_gc, the GC object (gc.hpp:83-90) and its heap
  stack,          \* VM::stack
  call_frames,    \* VM::call_frames
  globals,        \* VM::globals
  open_upvalues,  \* VM::open_upvalues
  parser,         \* VM::parser (Parser and its chain of Compiler objects)
  result,         \* what interpret() returned, "NONE" while it is running
  output,         \* the lines written to std::cout
  thrown,         \* the std::runtime_error caught by VM::run, or NoThrow
  executed,       \* the number of instructions VM::run has read so far
  step,           \* history: the opcode VM::run read last and the VM before it
  ref,            \* result and output of the same source in the other build
  shortcut,       \* history: the `and` and `or` expressions run() is in
  lox_chunk,      \* a lox::Chunk used on its own (tests/main.cpp:5)
  looked_up,      \* history: the last two calls of debuginfo_at on lox_chunk
  pushed,         \* history: what push_constant returned, when it was the
                  \* last call on lox_chunk
  marking         \* a collection run on gc by hand: the caller's position
                  \* and, as history, the objects pushed on and popped off
                  \* the grey stack since it began

vars == <<gc_debug, source, pc, gc, stack, call_frames, globals,
          open_upvalues, parser, result, output, thrown, executed, step,
          ref, lox_chunk, looked_up, pushed, marking, shortcut>>

NULL == 0

(***************************************************************************)
(* Value (value_def.hpp): monostate | bool | double | Obj*.  The payload   *)
(* is always an integer: 0/1 for a bool, the address for an Obj*.          *)
(***************************************************************************)
Nil == [t |-> "nil", v |-> 0]
Bool(b) == [t |-> "bool", v |-> IF b THEN 1 ELSE 0]
Number(n) == [t |-> "num", v |-> n]
ObjVal(h) == [t |-> "obj", v |-> h]

\* The truthiness of C: the number 0 is false as well.
ZeroIsFalsy(value) ==
  IF value.t = "nil" THEN FALSE
  ELSE IF value.t \in {"bool", "num"} THEN value.v # 0
  ELSE TRUE

is_truthy(value) ==
  IF value.t = "nil" THEN FALSE
  ELSE IF value.t = "bool" THEN value.v = 1
  ELSE TRUE

\* An equality that compares the payloads whatever the alternatives are.
LooseEqual(a, b) == a.v = b.v

is_equal(a, b) ==
  IF a.t # b.t THEN FALSE
  ELSE IF a.t = "nil" THEN TRUE
  ELSE a.v = b.v

(***************************************************************************)
(* enum class OpCode.  A byte of a chunk is the position of the opcode in  *)
(* the enumeration.                                                        *)
(***************************************************************************)
OpNames == <<"CONSTANT", "RETURN", "NEGATE", "ADD", "SUBTRACT", "MULTIPLY",
             "DIVIDE", "NOT", "EQUAL", "GREATER", "LESS", "PRINT", "POP",
             "GET_GLOBAL", "SET_GLOBAL", "DEFINE_GLOBAL", "SET_LOCAL",
             "GET_LOCAL", "JUMP_IF_FALSE", "JUMP", "CALL", "CLOSURE",
             "GET_UPVALUE", "SET_UPVALUE", "CLOSE_UPVALUE", "CLASS",
             "DEFINE_METHOD", "GET_PROPERTY", "SET_PROPERTY">>

OpCode(opname) == (CHOOSE i \in DOMAIN OpNames : OpNames[i] = opname) - 1

(***************************************************************************)
(* Chunk (chunk.cpp).  code, constants and debuginfo are the three         *)
(* vectors; bytecode offsets are 0-based, so byte o is code[o + 1].        *)
(* Some more fields are not fields of the class; they record what the      *)
(* callers did:                                                            *)
(*   opcodes  the offsets at which the compiler wrote an opcode            *)
(*            (Parser::emit(OpCode)) rather than an operand;               *)
(*   lines    the line passed to the write call of each byte;              *)
(*   targets  the pairs <<jump_byte, target_byte>> patch_jump was called   *)
(*            with;                                                        *)
(*   bodies   the ranges of code that Body wrote in one piece;             *)
(*   returns  the offsets of the RETURN of every `return v;`;              *)
(*   ends     the pairs <<size, n>> of the size of the code after a        *)
(*            complete statement and the number of locals the compiler     *)
(*            had then;                                                    *)
(*   shorts   the and and or expressions compiled: the function, the       *)
(*            offset of the JUMP_IF_FALSE behind the left operand, the     *)
(*            offsets of the first byte of the right operand and of the    *)
(*            first byte behind it, and the right operand.                 *)
(***************************************************************************)
NewChunk == [code |-> <<>>, constants |-> <<>>, debuginfo |-> <<>>,
             opcodes |-> {}, lines |-> <<>>, targets |-> {}, bodies |-> {},
             returns |-> {}, ends |-> {}, shorts |-> {}]

ChunkWrite(chunk, byte, line) ==
  LET nbytes == Len(chunk.code)
      n == Len(chunk.debuginfo)
  IN [chunk EXCEPT
        !.code = Append(@, byte),
        !.lines = Append(@, line),
        !.debuginfo = IF n = 0 \/ @[n].line # line
                      THEN Append(@, [bytecode_offset |-> nbytes, line |-> line])
                      ELSE @]

ChunkPushConstant(chunk, value) ==
  [chunk EXCEPT !.constants = Append(@, value)]

\* Chunk::patch_at_offset; code.at(offset) throws past the end and the
\* chunk is as it was.
ChunkPatchAtOffset(chunk, offset, byte) ==
  IF offset < Len(chunk.code)
  THEN [chunk EXCEPT !.code[offset + 1] = byte]
  ELSE chunk

\* Chunk::reset: code.clear(); no byte is left that a line was passed for.
ChunkReset(chunk) == [chunk EXCEPT !.code = <<>>, !.lines = <<>>]

\* A push_constant that returns the new size of the table.
PushedSize(chunk) == Len(chunk.constants)

\* What Chunk::push_constant returns, for the chunk after the push_back:
\* constants.size() - 1.
PushedIndex(chunk) == Len(chunk.constants) - 1

(***************************************************************************)
(* Heap objects (value.hpp).  Every object carries the header of class Obj *)
(* (type, next, is_marked, size).                                          *)
(***************************************************************************)
\* sizeof(T) for the object classes, as laid out on an LP64 target.
SizeOf == [STRING |-> 72, FUNCTION |-> 176, UPVALUE |-> 64, CLOSURE |-> 72,
           NATIVE_FUNCTION |-> 112]
            @@ ("CLASS" :> 104) @@ ("INSTANCE" :> 104) @@ ("BOUND_METHOD" :> 56)

ObjString(value) ==
  [type |-> "STRING", next |-> NULL, is_marked |-> FALSE, size |-> 0,
   value |-> value]

ObjFunction(name, arity) ==
  [type |-> "FUNCTION", next |-> NULL, is_marked |-> FALSE, size |-> 0,
   name |-> name, arity |-> arity, upvalues |-> <<>>, chunk |-> NewChunk]

\* location is a Value*: the address of a slot of VM::stack, or of the
\* upvalue's own closed field.
StackSlot(i) == [on_stack |-> TRUE, idx |-> i]
OwnClosed == [on_stack |-> FALSE, idx |-> 0]

ObjUpvalue(location) ==
  [type |-> "UPVALUE", next |-> NULL, is_marked |-> FALSE, size |-> 0,
   location |-> location, closed |-> Nil]

ObjClosure(function) ==
  [type |-> "CLOSURE", next |-> NULL, is_marked |-> FALSE, size |-> 0,
   function |-> function, upvalues |-> <<>>]

ObjNativeFunction(name, arity) ==
  [type |-> "NATIVE_FUNCTION", next |-> NULL, is_marked |-> FALSE, size |-> 0,
   name |-> name, arity |-> arity]

\* methods is a map from ObjString* to ObjClosure*.
ObjClass(name) ==
  [type |-> "CLASS", next |-> NULL, is_marked |-> FALSE, size |-> 0,
   name |-> name, methods |-> <<>>]

\* fields is a map from ObjString* to Value.
ObjInstance(klass) ==
  [type |-> "INSTANCE", next |-> NULL, is_marked |-> FALSE, size |-> 0,
   klass |-> klass, fields |-> <<>>]

ObjBoundMethod(receiver, method) ==
  [type |-> "BOUND_METHOD", next |-> NULL, is_marked |-> FALSE, size |-> 0,
   receiver |-> receiver, method |-> method]

to_repr(heap, h) ==
  LET o == heap[h] IN
  CASE o.type = "STRING" -> "\"" \o o.value \o "\""
    [] o.type = "FUNCTION" -> "<fn " \o o.name \o ">"
    [] o.type = "UPVALUE" -> "<upvalue>"
    [] o.type = "CLOSURE" -> "<clos " \o heap[o.function].name \o ">"
    [] o.type = "NATIVE_FUNCTION" -> "<native fn " \o o.name \o ">"

(***************************************************************************)
(* class GC (gc.hpp, gc.cpp).  brk is the allocator's next fresh address.  *)
(* Three fields are history, not fields of the class:                      *)
(*   log       for every collection run during the current operation, the  *)
(*             roots and the heap on entry and the collector's fields when *)
(*             GC::gc returned;                                            *)
(*   pending   the objects GC::alloc returned during the current           *)
(*             operation;                                                  *)
(*   unrooted  the objects that were not reachable from a root when a      *)
(*             later GC::alloc of the same operation was called.           *)
(***************************************************************************)
InitialGcThreshold == 1024 * 1024

NewGC == [head |-> NULL, heap |-> <<>>, interned_strings |-> <<>>,
          grey_stack |-> <<>>, alloc_callback |-> FALSE,
          bytes_allocated |-> 0, next_gc_threshold |-> InitialGcThreshold,
          brk |-> 1, log |-> <<>>, pending |-> {}, unrooted |-> {}]

should_gc(g) ==
  IF gc_debug THEN TRUE ELSE g.bytes_allocated > g.next_gc_threshold

\* A mark_as_grey that does not test is_marked.
MarkAgain(g, objptr) ==
  IF objptr # NULL
  THEN [g EXCEPT !.heap[objptr].is_marked = TRUE,
                 !.grey_stack = Append(@, objptr)]
  ELSE g

mark_as_grey(g, objptr) ==
  IF objptr # NULL /\ ~g.heap[objptr].is_marked
  THEN [g EXCEPT !.heap[objptr].is_marked = TRUE,
                 !.grey_stack = Append(@, objptr)]
  ELSE g

mark_value_as_grey(g, value) ==
  IF value.t = "obj" THEN mark_as_grey(g, value.v) ELSE g

\* The loops that call mark_as_grey on every element of a vector, first to
\* last.  A vector of more than one element is marked as its first half and
\* then its second half: the order is that of the loop, and the collector
\* after the first half is a value before the second half begins, so the
\* depth of the evaluation is logarithmic in the length (a chunk can hold
\* 257 constants).
RECURSIVE MarkValues(_, _)
MarkValues(g, values) ==
  IF values = <<>> THEN g
  ELSE IF Len(values) = 1 THEN mark_value_as_grey(g, values[1])
  ELSE CHOOSE marked \in
         { MarkValues(g1, SubSeq(values, Len(values) \div 2 + 1, Len(values))) :
             g1 \in {MarkValues(g, SubSeq(values, 1, Len(values) \div 2))} } :
         TRUE

RECURSIVE MarkObjects(_, _)
MarkObjects(g, objptrs) ==
  IF objptrs = <<>> THEN g
  ELSE IF Len(objptrs) = 1 THEN mark_as_grey(g, objptrs[1])
  ELSE CHOOSE marked \in
         { MarkObjects(g1, SubSeq(objptrs, Len(objptrs) \div 2 + 1, Len(objptrs))) :
             g1 \in {MarkObjects(g, SubSeq(objptrs, 1, Len(objptrs) \div 2))} } :
         TRUE

\* The switch without the loop over the constants of a function.
MarkChildrenSkipsConstants(g, objptr) ==
  LET p == g.heap[objptr] IN
  CASE p.type = "UPVALUE" -> mark_value_as_grey(g, p.closed)
    [] p.type = "CLOSURE" -> MarkObjects(mark_as_grey(g, p.function), p.upvalues)
    [] OTHER -> g

\* The switch of the grey-propagation loop: the children one object marks.
MarkChildren(g, objptr) ==
  LET p == g.heap[objptr] IN
  CASE p.type = "STRING" -> g
    [] p.type = "NATIVE_FUNCTION" -> g
    [] p.type = "FUNCTION" -> MarkValues(g, p.chunk.constants)
    [] p.type = "UPVALUE" -> mark_value_as_grey(g, p.closed)
    [] p.type = "CLOSURE" -> MarkObjects(mark_as_grey(g, p.function), p.upvalues)
    [] OTHER -> g

RECURSIVE Propagate(_)
Propagate(g) ==
  IF g.grey_stack = <<>> THEN g
  ELSE LET n == Len(g.grey_stack)
           objptr == g.grey_stack[n]
           g1 == [g EXCEPT !.grey_stack = SubSeq(@, 1, n - 1)]
       IN IF objptr = NULL THEN Propagate(g1)
          ELSE Propagate(MarkChildren(g1, objptr))

\* A collector that leaves the interned table alone.
KeepInternedStrings(g) == g

ClearInternedStrings(g) ==
  LET map == g.interned_strings
      kept == {k \in DOMAIN map : g.heap[map[k]].is_marked}
  IN [g EXCEPT !.interned_strings = [k \in kept |-> map[k]]]

RECURSIVE Sweep(_, _, _)
Sweep(g, prev, objptr) ==
  IF objptr = NULL THEN g
  ELSE LET next == g.heap[objptr].next IN
       IF ~g.heap[objptr].is_marked
       THEN LET g1 == IF prev # NULL
                      THEN [g EXCEPT !.heap[prev].next = next]
                      ELSE [g EXCEPT !.head = next]
                bytes == g.heap[objptr].size
                g2 == [g1 EXCEPT
                         !.bytes_allocated = @ - bytes,
                         !.heap = [h \in DOMAIN @ \ {objptr} |-> @[h]]]
            IN Sweep(g2, prev, next)
       ELSE Sweep([g EXCEPT !.heap[objptr].is_marked = FALSE], objptr, next)

\* The sweep loop of GC::gc, from the head of the list.
SweepAll(g) == Sweep(g, NULL, g.head)

UpdateThreshold(g) == [g EXCEPT !.next_gc_threshold = g.bytes_allocated * 2]

\* GC::gc
GcCollect(g) ==
  UpdateThreshold(SweepAll(ClearInternedStrings(Propagate(g))))

(***************************************************************************)
(* Reachability, defined from the fields of the object classes             *)
(* (value.hpp), independently of the collector's marking.                  *)
(***************************************************************************)
ValueRefs(values) ==
  {values[i].v : i \in {j \in DOMAIN values : values[j].t = "obj"}} \ {NULL}

ObjRefs(o) ==
  CASE o.type = "FUNCTION" -> ValueRefs(o.chunk.constants)
    [] o.type = "UPVALUE" -> ValueRefs(<<o.closed>>)
    [] o.type = "CLOSURE" ->
         ({o.function} \cup {o.upvalues[i] : i \in DOMAIN o.upvalues}) \ {NULL}
    [] o.type = "CLASS" ->
         ({o.name} \cup DOMAIN o.methods
            \cup {o.methods[k] : k \in DOMAIN o.methods}) \ {NULL}
    [] o.type = "INSTANCE" ->
         ({o.klass} \cup DOMAIN o.fields
            \cup {o.fields[k].v :
                    k \in {j \in DOMAIN o.fields : o.fields[j].t = "obj"}})
           \ {NULL}
    [] o.type = "BOUND_METHOD" -> {o.receiver, o.method} \ {NULL}
    [] OTHER -> {}

RECURSIVE Reachable(_, _)
Reachable(heap, from) ==
  LET live == from \cap DOMAIN heap
      more == live \cup UNION {ObjRefs(heap[h]) : h \in live}
  IN IF more = from THEN from ELSE Reachable(heap, more)

\* The roots VM::maybe_gc marks: the value stack, the globals, the closures
\* of the call frames, the open upvalues and the functions of the compilers
\* in flight.
Roots(stk, glb, frames, open, compilers) ==
  [stack |-> stk, globals |-> glb, call_frames |-> frames,
   open_upvalues |-> open, compilers |-> compilers]

RootSet(r) ==
  (ValueRefs(r.stack)
     \cup {r.globals[k].v : k \in {n \in DOMAIN r.globals : r.globals[n].t = "obj"}}
     \cup {r.call_frames[i].closure : i \in DOMAIN r.call_frames}
     \cup {r.open_upvalues[i] : i \in DOMAIN r.open_upvalues}
     \cup {r.compilers[i].current_function : i \in DOMAIN r.compilers})
  \ {NULL}

RECURSIVE SetToSeq(_)
SetToSeq(S) ==
  IF S = {} THEN <<>>
  ELSE LET x == CHOOSE y \in S : TRUE IN <<x>> \o SetToSeq(S \ {x})

\* The marking loops without compiler->mark_function_as_grey.
MarkRootsOfVM(g, r) ==
  LET names == SetToSeq(DOMAIN r.globals)
      g1 == MarkValues(g, r.stack)
      g2 == MarkValues(g1, [i \in DOMAIN names |-> r.globals[names[i]]])
      g3 == MarkObjects(g2, [i \in DOMAIN r.call_frames |->
                               r.call_frames[i].closure])
  IN MarkObjects(g3, r.open_upvalues)

\* The marking loops of VM::maybe_gc, in the order of the source.  The
\* iteration order of the globals map does not change which objects end up
\* marked.
MarkRoots(g, r) ==
  LET names == SetToSeq(DOMAIN r.globals)
      n == Len(r.compilers)
      g1 == MarkValues(g, r.stack)
      g2 == MarkValues(g1, [i \in DOMAIN names |-> r.globals[names[i]]])
      g3 == MarkObjects(g2, [i \in DOMAIN r.call_frames |->
                               r.call_frames[i].closure])
      g4 == MarkObjects(g3, r.open_upvalues)
  IN MarkObjects(g4, [i \in 1..n |-> r.compilers[n + 1 - i].current_function])

GcFields(g) ==
  [head |-> g.head, heap |-> g.heap, interned_strings |-> g.interned_strings,
   grey_stack |-> g.grey_stack, bytes_allocated |-> g.bytes_allocated,
   next_gc_threshold |-> g.next_gc_threshold]

\* The history entry of one collection: g before it, g1 after it.
Logged(g, r, g1) ==
  [g1 EXCEPT !.log = Append(@, [roots |-> RootSet(r),
                                before |-> GcFields(g),
                                after |-> GcFields(g1)])]

\* VM::maybe_gc
maybe_gc(g, r) ==
  IF should_gc(g) THEN Logged(g, r, GcCollect(MarkRoots(g, r))) ELSE g

\* The objects handed out earlier in this operation that no root reaches
\* when the next allocation is requested.
NoteUnrooted(g, r) ==
  [g EXCEPT !.unrooted = @ \cup (g.pending \ Reachable(g.heap, RootSet(r)))]

\* if (alloc_callback) alloc_callback();
AllocCallback(g, r) == IF g.alloc_callback THEN maybe_gc(g, r) ELSE g

\* new T(...) and the linking of the object into the list.
Link(g, obj) ==
  [g EXCEPT
     !.heap = (g.brk :> [obj EXCEPT !.is_marked = FALSE, !.next = g.head,
                                    !.size = SizeOf[obj.type]]) @@ @,
     !.head = g.brk,
     !.bytes_allocated = @ + SizeOf[obj.type],
     !.brk = g.brk + 1,
     !.pending = @ \cup {g.brk}]

\* GC::alloc<T>: the object is handed in as constructed by T's constructor.
alloc(g, r, obj) == Link(AllocCallback(NoteUnrooted(g, r), r), obj)

\* GC::get_string_ptr; ptr is the returned ObjString*.
Interned(g, key) ==
  [gc |-> [g EXCEPT !.interned_strings = (key :> g.head) @@ @], ptr |-> g.head]

\* A get_string_ptr that allocates without the lookup.
AllocString(g, r, key) == Interned(alloc(g, r, ObjString(key)), key)

get_string_ptr(g, r, key) ==
  IF key \in DOMAIN g.interned_strings
  THEN [gc |-> g, ptr |-> g.interned_strings[key]]
  ELSE Interned(alloc(g, r, ObjString(key)), key)

\* Every operation starts with an empty history.
BeginOp(g) == [g EXCEPT !.log = <<>>, !.pending = {}]

(***************************************************************************)
(* The compiler (compiler.cpp).  The scanner and the Pratt parser's        *)
(* precedence climbing are not modelled: the source is a sequence of       *)
(* declarations, block delimiters included, whose expressions are already  *)
(* the trees the parser walks:                                             *)
(*   <<"number", n>>  <<"string", s>>  <<"nil">>  <<"true">>  <<"false">>  *)
(*   <<"variable", name>>        <<"assign", name, e>>                     *)
(*   <<"unary", op, e>>          <<"binary", op, l, r>>                    *)
(*   <<"and", l, r>>             <<"or", l, r>>                            *)
(*   <<"call", callee, args>>                                              *)
(*   <<"none">>   a token with no prefix rule where an expression must     *)
(*                start                                                    *)
(*   <<"group", e>>     ( e )                                              *)
(*   <<"leftover", e>>  e = ..., for an e that no rule continues with '=': *)
(*                only as the expression of an expression statement        *)
(* The item at position i of the source is on line i.                      *)
(*                                                                         *)
(* A compile state cs carries what the Parser's member functions read and  *)
(* write: the collector, the chain of Compiler objects (outermost first),  *)
(* errmsg (<<>> is std::nullopt), previous.line, and uncaught, the message *)
(* of an exception that leaves the parser.  Two fields are not members of  *)
(* the class: first is the value of the first call of Parser::error, and   *)
(* late says whether a byte was emitted while errmsg held an error;        *)
(* resolved lists the variable references named_variable has resolved.     *)
(***************************************************************************)
NoError == <<>>

\* Local{depth, name, is_captured}
Local(depth, name) == [depth |-> depth, name |-> name, is_captured |-> FALSE]

\* Compiler::Compiler: slot 0 of every function is reserved.
NewCompiler(fnptr, fn_type) ==
  [current_function |-> fnptr, fn_type |-> fn_type, scope_depth |-> 0,
   locals |-> <<Local(0, "")>>]

CurrentCompiler(cs) == cs.compilers[Len(cs.compilers)]

CurrentFunction(cs) == CurrentCompiler(cs).current_function

get_chunk_size(cs) == Len(cs.gc.heap[CurrentFunction(cs)].chunk.code)

CompileRoots(cs) ==
  Roots(stack, globals, call_frames, open_upvalues, cs.compilers)

\* Parser::error
parser_error(cs, message) ==
  [cs EXCEPT !.errmsg = <<message, cs.line>>,
             !.first = IF @ = NoError THEN <<message, cs.line>> ELSE @]

has_error(cs) == cs.errmsg # NoError

\* History: statement() or declaration() returned in the compile state cs.
StatementEnd(cs) ==
  [cs EXCEPT !.gc.heap[CurrentFunction(cs)].chunk.ends =
               @ \cup {<<get_chunk_size(cs), Len(CurrentCompiler(cs).locals)>>}]

\* Parser::emit(uint8_t)
emit(cs, byte) ==
  [cs EXCEPT !.gc.heap[CurrentFunction(cs)].chunk =
               ChunkWrite(@, byte % 256, cs.line),
             !.late = @ \/ cs.errmsg # NoError]

\* Parser::emit(OpCode).  History: the offset of the byte is that of an
\* opcode.
emit_op(cs, opname) ==
  [emit(cs, OpCode(opname)) EXCEPT
     !.gc.heap[CurrentFunction(cs)].chunk.opcodes = @ \cup {get_chunk_size(cs)}]

\* A make_constant that rejects the constant with index 255.
CheckConstantIndexFrom255(cs1, constant_index) ==
  [cs |-> IF constant_index >= 255
          THEN parser_error(cs1, "Too many constants in one chunk.")
          ELSE cs1,
   index |-> constant_index]

\* Parser::make_constant; index is the returned constant index.
CheckConstantIndex(cs1, constant_index) ==
  [cs |-> IF constant_index > 255
          THEN parser_error(cs1, "Too many constants in one chunk.")
          ELSE cs1,
   index |-> constant_index]

\* The compile state is bound as a value c before the constant is pushed,
\* so that the index is read from a state that is already computed.
make_constant(cs, value) ==
  CHOOSE mc \in
    { CheckConstantIndex(
        [c EXCEPT !.gc.heap[CurrentFunction(c)].chunk = ChunkPushConstant(@, value)],
        Len(c.gc.heap[CurrentFunction(c)].chunk.constants)) : c \in {cs} } :
    TRUE

\* emit(opcode); emit(index) for the constant mc that make_constant returned.
emit_indexed(mc, opname) == emit(emit_op(mc.cs, opname), mc.index)

emit_constant(cs, value) == emit_indexed(make_constant(cs, value), "CONSTANT")

\* The two bytes of the offset with the low byte first.
SplitLowByteFirst(offset) ==
  LET u == (offset + 65536) % 65536
  IN [high_byte |-> u % 256, low_byte |-> u \div 256]

\* Two's-complement bytes of an int16_t offset.
split_jump_offset(offset) ==
  LET u == (offset + 65536) % 65536
  IN [high_byte |-> u \div 256, low_byte |-> u % 256]

\* Parser::emit_jump; the returned offset of the first operand byte is
\* get_chunk_size of the result minus 2.
emit_jump(cs, opname) == emit(emit(emit_op(cs, opname), 255), 255)

\* Compiler::patch_at_offset, twice
patch_at_offset(cs, offset, high_byte, low_byte) ==
  [cs EXCEPT !.gc.heap[CurrentFunction(cs)].chunk.code =
               [@ EXCEPT ![offset + 1] = high_byte, ![offset + 2] = low_byte]]

NoteTarget(cs, jump_byte, target_byte) ==
  [cs EXCEPT !.gc.heap[CurrentFunction(cs)].chunk.targets =
               @ \cup {<<jump_byte, target_byte>>}]

\* A patch_jump without the range test: the static_cast to int16_t wraps.
PatchJumpWraps(cs, jump_byte, target_byte) ==
  LET b == split_jump_offset(target_byte - jump_byte - 2)
  IN patch_at_offset(NoteTarget(cs, jump_byte, target_byte), jump_byte,
                     b.high_byte, b.low_byte)

patch_jump(cs, jump_byte, target_byte) ==
  LET jump_offset == target_byte - jump_byte - 2
      b == split_jump_offset(jump_offset)
  IN IF jump_offset > 32767 \/ jump_offset < -32768
     THEN parser_error(NoteTarget(cs, jump_byte, target_byte),
                       "Too much code to jump over.")
     ELSE patch_at_offset(NoteTarget(cs, jump_byte, target_byte), jump_byte,
                          b.high_byte, b.low_byte)

\* Compiler::resolve_local: the slot index, or -1 for std::nullopt.
RECURSIVE ResolveFrom(_, _, _)
ResolveFrom(locals, i, name) ==
  IF i < 0 THEN -1
  ELSE IF locals[i + 1].name = name THEN i
  ELSE ResolveFrom(locals, i - 1, name)

\* A resolve_local that finds the oldest local of the name.
ResolveOldest(compiler, name) ==
  IF \E i \in DOMAIN compiler.locals : compiler.locals[i].name = name
  THEN (CHOOSE i \in DOMAIN compiler.locals :
          /\ compiler.locals[i].name = name
          /\ \A j \in DOMAIN compiler.locals :
               compiler.locals[j].name = name => i <= j) - 1
  ELSE -1

resolve_local(compiler, name) ==
  ResolveFrom(compiler.locals, Len(compiler.locals) - 1, name)

\* A declare_local that never finds a duplicate.
DeclareUnchecked(compiler, name) ==
  [thrown |-> Len(compiler.locals) >= 256,
   has_duplicate |-> FALSE,
   compiler |-> IF Len(compiler.locals) >= 256 THEN compiler
                ELSE [compiler EXCEPT !.locals =
                        Append(@, Local(compiler.scope_depth, name))]]

\* Compiler::declare_local.  The duplicate search walks the locals of the
\* current scope from the back.
declare_local(compiler, name) ==
  LET dup == \E i \in DOMAIN compiler.locals :
               /\ compiler.locals[i].name = name
               /\ compiler.locals[i].depth = compiler.scope_depth
               /\ \A j \in i..Len(compiler.locals) :
                    compiler.locals[j].depth >= compiler.scope_depth
  IN [thrown |-> Len(compiler.locals) >= 256,
      has_duplicate |-> dup,
      compiler |-> IF dup \/ Len(compiler.locals) >= 256 THEN compiler
                   ELSE [compiler EXCEPT !.locals =
                           Append(@, Local(compiler.scope_depth, name))]]

\* A declare_upvalue that always appends.
DeclareAppended(cs, level, upvalue) ==
  LET fn == cs.compilers[level].current_function
  IN [cs |-> [cs EXCEPT !.gc.heap[fn].upvalues = Append(@, upvalue)],
      index |-> Len(cs.gc.heap[fn].upvalues)]

\* Compiler::declare_upvalue, on the compiler at position level of the chain.
declare_upvalue(cs, level, upvalue) ==
  LET fn == cs.compilers[level].current_function
      ups == cs.gc.heap[fn].upvalues
      found == {i \in DOMAIN ups : ups[i] = upvalue}
  IN IF found # {}
     THEN [cs |-> cs, index |-> (CHOOSE i \in found : \A j \in found : i <= j) - 1]
     ELSE [cs |-> [cs EXCEPT !.gc.heap[fn].upvalues = Append(@, upvalue)],
           index |-> Len(ups)]

\* Compiler::resolve_upvalue; the parent of the compiler at position level
\* is the one at level - 1, and the outermost has no parent.
RECURSIVE resolve_upvalue(_, _, _)
resolve_upvalue(cs, level, name) ==
  IF level = 1 THEN [cs |-> cs, index |-> -1]
  ELSE LET parent_local_index == resolve_local(cs.compilers[level - 1], name)
       IN IF parent_local_index >= 0
          THEN declare_upvalue(
                 [cs EXCEPT !.compilers[level - 1]
                               .locals[parent_local_index + 1].is_captured = TRUE],
                 level, [index |-> parent_local_index, is_local |-> TRUE])
          ELSE LET up == resolve_upvalue(cs, level - 1, name)
               IN IF up.index >= 0
                  THEN declare_upvalue(up.cs, level,
                                       [index |-> up.index, is_local |-> FALSE])
                  ELSE [cs |-> up.cs, index |-> -1]

\* The identifier-to-constant step shared by define_global_variable and
\* named_variable: intern the name and add it to the constant table.
string_constant(cs, sp) == make_constant([cs EXCEPT !.gc = sp.gc], ObjVal(sp.ptr))

name_constant(cs, name) ==
  string_constant(cs, get_string_ptr(cs.gc, CompileRoots(cs), name))

define_global_variable(cs, name) ==
  emit_indexed(name_constant(cs, name), "DEFINE_GLOBAL")

define_variable(cs, var_name) ==
  IF CurrentCompiler(cs).scope_depth > 0
  THEN LET d == declare_local(CurrentCompiler(cs), var_name)
       IN IF d.thrown
          THEN [cs EXCEPT !.uncaught = "too many local variables in function"]
          ELSE IF d.has_duplicate
          THEN parser_error(cs, "variable '" \o var_name
                                  \o "' already declared in this scope")
          ELSE [cs EXCEPT !.compilers[Len(cs.compilers)] = d.compiler]
  ELSE define_global_variable(cs, var_name)

RECURSIVE expression(_, _)
RECURSIVE ArgumentList(_, _)

\* parse_precedence above ASSIGNMENT calls the prefix rule with can_assign =
\* false: the operand of a unary operator and the right operand of a binary
\* one, of and and of or.  An assignment in that place is marked.
Operand(e) ==
  IF e[1] = "assign" THEN <<"operand_assign", e[2], e[3]>> ELSE e

\* Parser::emit_variable_access; e is the variable or assignment node.
emit_variable_access(cs, set_opcode, get_opcode, index, e) ==
  IF e[1] = "assign"
  THEN emit(emit_op(expression(cs, e[3]), set_opcode), index)
  ELSE IF e[1] = "operand_assign"
  THEN emit(emit_op(expression(parser_error(cs, "invalid assignment target"),
                               e[3]),
                    set_opcode),
            index)
  ELSE emit(emit_op(cs, get_opcode), index)

\* The three branches of Parser::named_variable: local_index is the result
\* of resolve_local, up that of resolve_upvalue, mc the name's constant.
\* History: named_variable, compiling the function fn, resolved name to the
\* local, the upvalue or the global (kind) with the given index, while the
\* chain of compilers had these locals and their functions these upvalue
\* descriptors.
NoteResolved(cs, name, kind, index) ==
  [cs EXCEPT !.resolved =
     Append(@, [name |-> name, kind |-> kind, index |-> index,
                fn |-> CurrentCompiler(cs).current_function,
                locals |-> [l \in DOMAIN cs.compilers |->
                              cs.compilers[l].locals],
                upvalues |-> [l \in DOMAIN cs.compilers |->
                                cs.gc.heap[cs.compilers[l].current_function]
                                  .upvalues]])]

global_variable(mc, e) ==
  emit_variable_access(mc.cs, "SET_GLOBAL", "GET_GLOBAL", mc.index, e)

upvalue_variable(up, e) ==
  IF up.index >= 0
  THEN emit_variable_access(NoteResolved(up.cs, e[2], "upvalue", up.index),
                            "SET_UPVALUE", "GET_UPVALUE", up.index, e)
  ELSE global_variable(name_constant(NoteResolved(up.cs, e[2], "global", -1),
                                     e[2]),
                       e)

local_variable(cs, local_index, e) ==
  IF local_index >= 0
  THEN emit_variable_access(NoteResolved(cs, e[2], "local", local_index),
                            "SET_LOCAL", "GET_LOCAL", local_index, e)
  ELSE upvalue_variable(resolve_upvalue(cs, Len(cs.compilers), e[2]), e)

named_variable(cs, e) ==
  local_variable(cs, resolve_local(CurrentCompiler(cs), e[2]), e)

\* Parser::string
string_literal(cs, lexeme) ==
  emit_indexed(string_constant(cs, get_string_ptr(cs.gc, CompileRoots(cs), lexeme)),
               "CONSTANT")

\* Parser::unary, after the operand.
unary(cs, op) ==
  IF op = "-" THEN emit_op(cs, "NEGATE") ELSE emit_op(cs, "NOT")

\* Parser::binary, after the right operand.
\* The switch of Parser::binary: the opcode each operator emits, and the
\* operators that emit NOT after it.
BinaryOpcode ==
  [op \in {"+", "-", "*", "/", "==", "!=", ">", ">=", "<", "<="} |->
     CASE op = "+" -> "ADD"
       [] op = "-" -> "SUBTRACT"
       [] op = "*" -> "MULTIPLY"
       [] op = "/" -> "DIVIDE"
       [] op \in {"==", "!="} -> "EQUAL"
       [] op \in {">", "<="} -> "GREATER"
       [] op \in {"<", ">="} -> "LESS"]

binary(cs, op) ==
  IF op \in {"!=", ">=", "<="}
  THEN emit_op(emit_op(cs, BinaryOpcode[op]), "NOT")
  ELSE emit_op(cs, BinaryOpcode[op])

\* Parser::and_operator, after the left operand.
\* patch_jump(jump_byte, get_chunk_size())
\* The compile state is bound as a value c before its chunk size is read.
patch_jump_here(cs, jump_byte) ==
  CHOOSE patched \in {patch_jump(c, jump_byte, get_chunk_size(c)) : c \in {cs}} :
    TRUE

\* History: the code from offset at to the end of the code of done is
\* the rest of an and or an or expression, with the right operand from
\* offset from on.
NoteShort(done, kind, at, from, right) ==
  [done EXCEPT !.gc.heap[CurrentFunction(done)].chunk.shorts =
     @ \cup {[kind |-> kind, fn |-> CurrentFunction(done), at |-> at,
               right |-> from, end |-> get_chunk_size(done), e |-> right]}]

\* An and_operator that does not pop the left operand.
AndKeepsLeft(cs, right) ==
  NoteShort(
    patch_jump_here(expression(emit_jump(cs, "JUMP_IF_FALSE"), Operand(right)),
                    get_chunk_size(cs) + 1),
    "and", get_chunk_size(cs), get_chunk_size(cs) + 3, right)

\* Parser::and_operator, after the left operand.  emit_jump returns the
\* offset of its first operand byte: the chunk size before it, plus one.
and_operator(cs, right) ==
  NoteShort(
    patch_jump_here(expression(emit_op(emit_jump(cs, "JUMP_IF_FALSE"), "POP"),
                               Operand(right)),
                    get_chunk_size(cs) + 1),
    "and", get_chunk_size(cs), get_chunk_size(cs) + 4, right)

\* Parser::or_operator, after the left operand: jump_to_right_operand is
\* the chunk size plus one, jump_to_end the chunk size plus four.
or_operator(cs, right) ==
  NoteShort(
    patch_jump_here(
      expression(
        emit_op(patch_jump_here(emit_jump(emit_jump(cs, "JUMP_IF_FALSE"),
                                          "JUMP"),
                                get_chunk_size(cs) + 1),
                "POP"),
        Operand(right)),
      get_chunk_size(cs) + 4),
    "or", get_chunk_size(cs), get_chunk_size(cs) + 7, right)

\* The argument loop of Parser::call.
ArgumentList(cs, args) ==
  IF args = <<>> THEN cs
  ELSE ArgumentList(expression(cs, Head(args)), Tail(args))

\* Parser::call, after the callee.
check_arg_count(cs, arg_count) ==
  IF arg_count > 255
  THEN parser_error(cs, "cannot have more than 255 arguments")
  ELSE cs

call_expression(cs, args) ==
  emit(emit_op(check_arg_count(ArgumentList(cs, args), Len(args)), "CALL"),
       Len(args))

\* The rule of the first token of e and the infix rules that follow it.
\* The infix rules of and and of or get the compile state after the left
\* operand as a value.
PrecedenceRules(cs, e) ==
  CASE e[1] = "number" -> emit_constant(cs, Number(e[2]))
    [] e[1] = "string" -> string_literal(cs, e[2])
    [] e[1] = "nil" -> emit_constant(cs, Nil)
    [] e[1] = "true" -> emit_constant(cs, Bool(TRUE))
    [] e[1] = "false" -> emit_constant(cs, Bool(FALSE))
    [] e[1] \in {"variable", "assign", "operand_assign"} ->
         named_variable(cs, e)
    [] e[1] \in {"group", "leftover"} -> expression(cs, e[2])
    [] e[1] = "unary" -> unary(expression(cs, Operand(e[3])), e[2])
    [] e[1] = "binary" ->
         binary(expression(expression(cs, e[3]), Operand(e[4])), e[2])
    [] e[1] = "and" ->
         CHOOSE compiled \in
           {and_operator(left, e[3]) : left \in {expression(cs, e[2])}} : TRUE
    [] e[1] = "or" ->
         CHOOSE compiled \in
           {or_operator(left, e[3]) : left \in {expression(cs, e[2])}} : TRUE
    [] e[1] = "call" -> call_expression(expression(cs, e[2]), e[3])
    [] e[1] = "none" -> parser_error(cs, "expected expression")

\* Parser::expression: what parse_precedence(ASSIGNMENT) emits for the tree.
\* The compile state is bound as a value c before the rules of e are
\* applied: what was compiled before e is computed first, and the depth of
\* the evaluation is that of the deeper of the two, not their sum.
expression(cs, e) ==
  CHOOSE compiled \in {PrecedenceRules(c, e) : c \in {cs}} : TRUE

(***************************************************************************)
(* Source items.  e is <<>> where the grammar's optional expression is     *)
(* absent.                                                                 *)
(***************************************************************************)
Item(k, name, params, e) == [k |-> k, name |-> name, params |-> params, e |-> e]
VarDecl(name, e) == Item("var", name, <<>>, e)
FunDecl(name, params) == Item("fun", name, params, <<>>)
PrintStmt(e) == Item("print", "", <<>>, e)
ReturnStmt(e) == Item("return", "", <<>>, e)
ExprStmt(e) == Item("expr", "", <<>>, e)
\* class name {, and name(params) { inside a class body
ClassDecl(name) == Item("class", name, <<>>, <<>>)
Method(name, params) == Item("method", name, params, <<>>)
LBrace == Item("{", "", <<>>, <<>>)
RBrace == Item("}", "", <<>>, <<>>)

\* An implicit return value of 0.
EmitAutoReturnZero(cs) == emit_constant(cs, Number(0))

\* Parser::emit_auto_return_value
emit_auto_return_value(cs) ==
  IF CurrentCompiler(cs).fn_type = "CLASSINIT"
  THEN emit(emit_op(cs, "GET_LOCAL"), 0)
  ELSE emit_constant(cs, Nil)

\* Parser::var_declaration
var_declaration(cs, item) ==
  define_variable(IF item.e # <<>> THEN expression(cs, item.e)
                  ELSE emit_constant(cs, Nil),
                  item.name)

\* Parser::print_statement
print_statement(cs, item) == emit_op(expression(cs, item.e), "PRINT")

\* consume_or_error(SEMICOLON, message) after the expression e of a
\* statement: the current token is the ';' unless a '=' was left over.
consume_semicolon(cs, e, message) ==
  IF e[1] = "leftover" THEN parser_error(cs, message) ELSE cs

\* Parser::expression_statement
expression_statement(cs, e) ==
  emit_op(consume_semicolon(expression(cs, e), e,
                            "expected ';' after expression"),
          "POP")

\* The statement() of a branch or a loop, for a block of n bytes of code:
\* the statements `!name;` (GET_LOCAL slot, NOT, POP) n % 3 times and then
\* `name;` (GET_LOCAL slot, POP), where name is a local variable, all on the
\* line of the statement.  The block declares nothing, so begin_scope and
\* end_scope emit nothing.  The first byte goes through emit; the others
\* are on the same line and leave the line table alone.
Body(cs, name, n) ==
  LET slot == resolve_local(CurrentCompiler(cs), name)
      start == get_chunk_size(cs)
      quads == 4 * (n % 3)
      long == <<OpCode("GET_LOCAL"), slot, OpCode("NOT"), OpCode("POP")>>
      short == <<OpCode("GET_LOCAL"), slot, OpCode("POP")>>
      Byte(i) == IF i < quads THEN long[(i % 4) + 1]
                 ELSE short[((i - quads) % 3) + 1]
      IsOperand(i) == IF i < quads THEN i % 4 = 1 ELSE (i - quads) % 3 = 1
      IsEnd(i) == IF i <= quads THEN i % 4 = 0 ELSE (i - quads) % 3 = 0
  IN IF n = 0 THEN cs
     ELSE [emit_op(cs, "GET_LOCAL") EXCEPT
             !.gc.heap[CurrentFunction(cs)].chunk =
               [@ EXCEPT
                  !.code = @ \o [i \in 1..(n - 1) |-> Byte(i)],
                  !.lines = @ \o [i \in 1..(n - 1) |-> cs.line],
                  !.opcodes = @ \cup {start + i : i \in
                                        {j \in 1..(n - 1) : ~IsOperand(j)}},
                  !.bodies = @ \cup {[from |-> start, to |-> start + n]},
                  !.ends = @ \cup {<<start + i, Len(CurrentCompiler(cs).locals)>> :
                                     i \in {j \in 1..n : IsEnd(j)}}]]

\* Parser::if_statement
else_branch(cs, item, else_jump_byte) ==
  patch_jump_here(IF Len(item.params) > 1
                  THEN Body(cs, item.name, item.params[2]) ELSE cs,
                  else_jump_byte)

then_branch(cs, item, jump_byte) ==
  else_branch(emit_op(patch_jump_here(emit_jump(cs, "JUMP"), jump_byte), "POP"),
              item, get_chunk_size(cs) + 1)

if_statement(cs, item) ==
  LET c1 == expression(cs, item.e)
  IN then_branch(Body(emit_op(emit_jump(c1, "JUMP_IF_FALSE"), "POP"),
                      item.name, item.params[1]),
                 item, get_chunk_size(c1) + 1)

\* Parser::while_statement
loop_back(cs, loop_start, exit_jump) ==
  emit_op(patch_jump_here(patch_jump(emit_jump(cs, "JUMP"),
                                     get_chunk_size(cs) + 1, loop_start),
                          exit_jump),
          "POP")

while_statement(cs, item) ==
  LET c1 == expression(cs, item.e)
  IN loop_back(Body(emit_op(emit_jump(c1, "JUMP_IF_FALSE"), "POP"),
                    item.name, item.params[1]),
               get_chunk_size(cs), get_chunk_size(c1) + 1)

\* Parser::return_statement
return_statement(cs, item) ==
  LET c1 == IF CurrentCompiler(cs).fn_type = "TOPLEVEL"
            THEN parser_error(cs, "cannot return from top-level code")
            ELSE cs
      c2 == IF item.e = <<>> THEN emit_auto_return_value(c1)
            ELSE expression(
                   IF CurrentCompiler(c1).fn_type = "CLASSINIT"
                   THEN parser_error(c1, "cannot return a value from an initializer")
                   ELSE c1,
                   item.e)
  IN IF item.e = <<>> THEN emit_op(c2, "RETURN")
     ELSE [emit_op(c2, "RETURN") EXCEPT
             !.gc.heap[CurrentFunction(cs)].chunk.returns =
               @ \cup {get_chunk_size(c2)}]

\* An end of scope that emits POP for every local.
RECURSIVE EndScopePops(_)
EndScopePops(cs) ==
  LET compiler == CurrentCompiler(cs)
      n == Len(compiler.locals)
  IN IF n > 0 /\ compiler.locals[n].depth = compiler.scope_depth
     THEN EndScopePops(
            emit_op([cs EXCEPT !.compilers[Len(cs.compilers)].locals =
                                 SubSeq(@, 1, n - 1)],
                    "POP"))
     ELSE [cs EXCEPT !.compilers[Len(cs.compilers)].scope_depth = @ - 1]

\* Compiler::end_scope followed by the loop of Parser::end_scope.
RECURSIVE EndScopeLoop(_)
EndScopeLoop(cs) ==
  LET compiler == CurrentCompiler(cs)
      n == Len(compiler.locals)
  IN IF n > 0 /\ compiler.locals[n].depth = compiler.scope_depth
     THEN EndScopeLoop(
            emit_op([cs EXCEPT !.compilers[Len(cs.compilers)].locals =
                                 SubSeq(@, 1, n - 1)],
                    IF compiler.locals[n].is_captured THEN "CLOSE_UPVALUE"
                    ELSE "POP"))
     ELSE cs

end_scope(cs) ==
  [EndScopeLoop(cs) EXCEPT !.compilers[Len(cs.compilers)].scope_depth = @ - 1]

\* Parser::for_statement.  item.e is <<initialiser, condition, increment>>:
\* the initialiser is <<>>, <<"var", name, e>> or <<"expr", e>>, and the
\* condition and the increment are an expression or <<>>.
for_initialiser(cs, init) ==
  IF init = <<>> THEN cs
  ELSE IF init[1] = "var"
  THEN var_declaration(cs, [k |-> "var", name |-> init[2], params |-> <<>>,
                            e |-> init[3]])
  ELSE expression_statement(cs, init[2])

for_condition(cs, cond) ==
  IF cond = <<>> THEN cs ELSE emit_jump(expression(cs, cond), "JUMP_IF_FALSE")

\* emit_jump(JUMP) and patch_jump of it to an offset already written.
jump_back(cs, target_byte) ==
  patch_jump(emit_jump(cs, "JUMP"), get_chunk_size(cs) + 1, target_byte)

for_increment(cs, incr, has_condition, cond_start) ==
  IF has_condition
  THEN jump_back(IF incr = <<>> THEN cs
                 ELSE emit_op(expression(cs, incr), "POP"),
                 cond_start)
  ELSE IF incr = <<>> THEN cs ELSE emit_op(expression(cs, incr), "POP")

\* A loop body that leaves the condition value on the stack.
ForBodyKeepsCondition(cs, item, has_condition, to_body_jump) ==
  Body(patch_jump_here(cs, to_body_jump), item.name, item.params[1])

for_body(cs, item, has_condition, to_body_jump) ==
  Body(IF has_condition
       THEN emit_op(patch_jump_here(cs, to_body_jump), "POP")
       ELSE patch_jump_here(cs, to_body_jump),
       item.name, item.params[1])

for_exit(cs, has_condition, increment_start, exit_jump) ==
  end_scope(emit_op(IF has_condition
                    THEN patch_jump_here(jump_back(cs, increment_start),
                                         exit_jump)
                    ELSE jump_back(cs, increment_start),
                    "POP"))

\* From the increment on; cs is the state after emit_jump(JUMP) to the body.
for_clauses(cs, item, cond_start, exit_jump, to_body_jump) ==
  for_exit(for_body(for_increment(cs, item.e[3], item.e[2] # <<>>, cond_start),
                    item, item.e[2] # <<>>, to_body_jump),
           item.e[2] # <<>>, get_chunk_size(cs), exit_jump)

\* From the jump to the body on; cs is the state after the condition.
for_loop(cs, item, cond_start) ==
  for_clauses(emit_jump(cs, "JUMP"), item, cond_start,
              get_chunk_size(cs) - 2, get_chunk_size(cs) + 1)

\* From the condition on; cs is the state after the initialiser.
for_test(cs, item) ==
  for_loop(for_condition(cs, item.e[2]), item, get_chunk_size(cs))

for_statement(cs, item) ==
  for_test(for_initialiser(
             [cs EXCEPT !.compilers[Len(cs.compilers)].scope_depth = @ + 1],
             item.e[1]),
           item)

\* Parser::finalise_function; fnptr is the returned ObjFunction*.
\* current = current->get_parent(), returning the finished function.
pop_compiler(cs) ==
  [cs |-> [cs EXCEPT !.compilers = SubSeq(@, 1, Len(@) - 1)],
   fnptr |-> CurrentFunction(cs)]

finalise_function(cs) ==
  IF has_error(cs) THEN [cs |-> cs, fnptr |-> NULL]
  ELSE pop_compiler(emit_op(emit_auto_return_value(cs), "RETURN"))

MAX_ARITY == 255

\* The parameter loop of Parser::function.
RECURSIVE Parameters(_, _, _)
Parameters(cs, params, arity) ==
  IF params = <<>> THEN cs
  ELSE LET c1 == IF arity + 1 > MAX_ARITY
                 THEN parser_error(cs, "cannot have more than 255 parameters")
                 ELSE cs
       IN Parameters(define_variable(c1, Head(params)), Tail(params), arity + 1)

\* Parser::function up to and including the '{' of the body.
\* current = make_unique<Compiler>(new_fnptr, std::move(current), type) and
\* begin_scope(); g is the collector after the allocation of the function.
push_compiler(cs, g, fn_type) ==
  [cs EXCEPT !.gc = g,
             !.compilers = Append(@, [NewCompiler(g.head, fn_type)
                                        EXCEPT !.scope_depth = 1])]

\* The FunctionType of the new compiler; a "method" item is what
\* function(true) parses.
FunctionType(item) ==
  IF item.k # "method" THEN "FUNCTION"
  ELSE IF item.name = "init" THEN "CLASSINIT"
  ELSE "CLASSMETHOD"

\* new_fnptr->arity = arity
set_arity(cs, arity) == [cs EXCEPT !.gc.heap[CurrentFunction(cs)].arity = arity]

function_begin(cs, item) ==
  set_arity(
    Parameters(push_compiler(cs, alloc(cs.gc, CompileRoots(cs),
                                       ObjFunction(item.name, 0)),
                             FunctionType(item)),
               item.params, 0),
    Len(item.params))

\* An upvalue operand without the is_local byte.
emit_upvalue_index(cs, upvalue) == emit(cs, upvalue.index)

\* The operand pair Parser::function emits for one upvalue descriptor.
emit_upvalue(cs, upvalue) ==
  emit(emit(cs, IF upvalue.is_local THEN 1 ELSE 0), upvalue.index)

RECURSIVE EmitUpvalues(_, _)
EmitUpvalues(cs, upvalues) ==
  IF upvalues = <<>> THEN cs
  ELSE EmitUpvalues(emit_upvalue(cs, Head(upvalues)), Tail(upvalues))

\* Parser::function from the return of block() on.
\* The upvalue loop, then define_variable(fn_name) unless the function is a
\* class method.
define_closure(cs, final_fnptr, is_class_method) ==
  IF is_class_method
  THEN EmitUpvalues(cs, cs.gc.heap[final_fnptr].upvalues)
  ELSE define_variable(EmitUpvalues(cs, cs.gc.heap[final_fnptr].upvalues),
                       cs.gc.heap[final_fnptr].name)

\* fin is what finalise_function returned.
emit_closure(fin, is_class_method) ==
  IF fin.fnptr = NULL THEN fin.cs
  ELSE define_closure(emit_indexed(make_constant(fin.cs, ObjVal(fin.fnptr)),
                                   "CLOSURE"),
                      fin.fnptr, is_class_method)

function_end(cs, is_class_method) ==
  emit_closure(finalise_function(cs), is_class_method)

\* Parser::method from the return of block() on.
method(cs) == emit_op(function_end(cs, TRUE), "DEFINE_METHOD")

\* Parser::class_declaration up to and including the '{' of the body; the
\* current class (push_current_class) is the "class" entry of ctx.
class_begin(cs, item) ==
  named_variable(
    define_variable(emit_indexed(name_constant(cs, item.name), "CLASS"),
                    item.name),
    <<"variable", item.name>>)

\* Parser::class_declaration from the end of the method loop on; found is
\* what consume_or_error returned for the '}'.
class_end(cs, found) ==
  emit_op(IF found THEN cs
          ELSE parser_error(cs, "expected '}' after class body"),
          "POP")

(***************************************************************************)
(* The state after VM::VM: the top-level function is allocated before the  *)
(* allocation callback is installed, and the Parser holds one Compiler.    *)
(***************************************************************************)
ConstructedGC ==
  [alloc(NewGC, Roots(<<>>, <<>>, <<>>, <<>>, <<>>),
         ObjFunction("#toplevel#", 0))
     EXCEPT !.alloc_callback = TRUE, !.pending = {}]

ConstructedParser ==
  [pos |-> 1, errmsg |-> NoError, first |-> NoError, late |-> FALSE,
   resolved |-> <<>>,
   ctx |-> <<>>,
   compilers |-> <<NewCompiler(NewGC.brk, "TOPLEVEL")>>]

NoRef == [result |-> "NONE", output |-> <<>>]

\* The natives interpret() defines, in order.
Natives == <<[name |-> "clock", arity |-> 0], [name |-> "sleep", arity |-> 1]>>

(***************************************************************************)
(* Compilation, one declaration per step.  ctx is the parser's recursion:  *)
(* the blocks and function bodies whose closing brace is still to come,    *)
(* innermost last.  Parser::is_at_end is taken as "the current token is    *)
(* EOF".                                                                   *)
(***************************************************************************)
AtEnd == parser.pos > Len(source)

Current == IF AtEnd THEN Item("EOF", "", <<>>, <<>>) ELSE source[parser.pos]

Enclosing == IF parser.ctx = <<>> THEN "parse" ELSE parser.ctx[Len(parser.ctx)]

\* The loop conditions of Parser::parse and Parser::block.
CanDeclare ==
  /\ pc = "compile"
  /\ ~AtEnd
  /\ parser.errmsg = NoError
  /\ Enclosing # "class"
  /\ (Enclosing # "parse" => Current.k # "}")

\* block() returns: on '}', at the end of the source, or after an error.
BlockReturns(kind) ==
  /\ pc = "compile"
  /\ Enclosing = kind
  /\ (Current.k = "}" \/ AtEnd \/ parser.errmsg # NoError)

\* The compile state at the start of a step; consumed says whether the step
\* advances over the current item.
StartCompile(consumed) ==
  [gc |-> BeginOp(gc), compilers |-> parser.compilers,
   errmsg |-> parser.errmsg, first |-> parser.first, late |-> parser.late,
   resolved |-> parser.resolved,
   uncaught |-> "",
   line |-> IF consumed THEN parser.pos ELSE parser.pos - 1]

\* An exception that leaves the parser is caught nowhere.
EndCompile(cs, ctx) ==
  /\ gc' = cs.gc
  /\ parser' = [pos |-> cs.line + 1, errmsg |-> cs.errmsg,
                first |-> cs.first, late |-> cs.late,
                resolved |-> cs.resolved,
                compilers |-> cs.compilers, ctx |-> ctx]
  /\ IF cs.uncaught # ""
     THEN pc' = "done" /\ result' = "CRASH"
     ELSE UNCHANGED <<pc, result>>
  /\ UNCHANGED <<gc_debug, source, stack, call_frames, globals,
                 open_upvalues, output, thrown, executed, step, ref,
                 lox_chunk, looked_up, pushed, marking, shortcut>>

VarDeclaration ==
  /\ CanDeclare /\ Current.k = "var"
  /\ EndCompile(StatementEnd(var_declaration(StartCompile(TRUE), Current)),
                parser.ctx)

FunDeclaration ==
  /\ CanDeclare /\ Current.k = "fun"
  /\ EndCompile(function_begin(StartCompile(TRUE), Current),
                Append(parser.ctx, "function"))

FunctionEnd ==
  /\ BlockReturns("function")
  /\ EndCompile(StatementEnd(function_end(StartCompile(Current.k = "}"), FALSE)),
                SubSeq(parser.ctx, 1, Len(parser.ctx) - 1))

ClassDeclaration ==
  /\ CanDeclare /\ Current.k = "class"
  /\ EndCompile(class_begin(StartCompile(TRUE), Current),
                Append(parser.ctx, "class"))

\* The loop of class_declaration: method() up to the '{' of the body.
MethodDeclaration ==
  /\ pc = "compile" /\ ~AtEnd /\ parser.errmsg = NoError
  /\ Enclosing = "class" /\ Current.k = "method"
  /\ EndCompile(function_begin(StartCompile(TRUE), Current),
                Append(parser.ctx, "method"))

MethodEnd ==
  /\ BlockReturns("method")
  /\ EndCompile(method(StartCompile(Current.k = "}")),
                SubSeq(parser.ctx, 1, Len(parser.ctx) - 1))

ClassEnd ==
  /\ BlockReturns("class")
  /\ EndCompile(StatementEnd(class_end(StartCompile(Current.k = "}"),
                                      Current.k = "}")),
                SubSeq(parser.ctx, 1, Len(parser.ctx) - 1))

\* statement(): '{' begins a scope and a block.
BlockBegin ==
  /\ CanDeclare /\ Current.k = "{"
  /\ EndCompile([StartCompile(TRUE) EXCEPT
                   !.compilers[Len(parser.compilers)].scope_depth = @ + 1],
                Append(parser.ctx, "block"))

BlockEnd ==
  /\ BlockReturns("block")
  /\ EndCompile(StatementEnd(end_scope(StartCompile(Current.k = "}"))),
                SubSeq(parser.ctx, 1, Len(parser.ctx) - 1))

IfStatement ==
  /\ CanDeclare /\ Current.k = "if"
  /\ EndCompile(StatementEnd(if_statement(StartCompile(TRUE), Current)),
                parser.ctx)

WhileStatement ==
  /\ CanDeclare /\ Current.k = "while"
  /\ EndCompile(StatementEnd(while_statement(StartCompile(TRUE), Current)),
                parser.ctx)

ForStatement ==
  /\ CanDeclare /\ Current.k = "for"
  /\ EndCompile(StatementEnd(for_statement(StartCompile(TRUE), Current)),
                parser.ctx)

PrintStatement ==
  /\ CanDeclare /\ Current.k = "print"
  /\ EndCompile(StatementEnd(print_statement(StartCompile(TRUE), Current)),
                parser.ctx)

ReturnStatement ==
  /\ CanDeclare /\ Current.k = "return"
  /\ EndCompile(StatementEnd(return_statement(StartCompile(TRUE), Current)),
                parser.ctx)

\* A '}' that closes nothing reaches expression_statement and has no prefix
\* rule.
ExpressionStatement ==
  /\ pc = "compile" /\ ~AtEnd /\ parser.errmsg = NoError
  /\ \/ Current.k = "expr"
     \/ Current.k = "}" /\ Enclosing = "parse"
  /\ EndCompile(StatementEnd(expression_statement(
                  StartCompile(TRUE),
                  IF Current.k = "expr" THEN Current.e ELSE <<"none">>)),
                parser.ctx)

\* VM::define_native, for the next native of interpret().
DefineNative ==
  /\ pc = "natives"
  /\ LET n == Cardinality(DOMAIN globals) + 1
         native_fn == gc.brk
         g1 == alloc(BeginOp(gc),
                     Roots(stack, globals, call_frames, open_upvalues,
                           parser.compilers),
                     ObjNativeFunction(Natives[n].name, Natives[n].arity))
     IN /\ gc' = g1
        /\ globals' = (Natives[n].name :> ObjVal(native_fn)) @@ globals
        /\ pc' = IF n = Len(Natives) THEN "compile" ELSE "natives"
  /\ UNCHANGED <<gc_debug, source, stack, call_frames, open_upvalues, parser,
                 result, output, thrown, executed, step, ref, lox_chunk,
                 looked_up, pushed, marking, shortcut>>

(***************************************************************************)
(* The VM (vm.cpp, vm.hpp).  A vm record carries what one iteration of the *)
(* loop of VM::run reads and writes, and how the iteration ended:          *)
(*   err       what() of a std::runtime_error in flight, "" if none;       *)
(*   err_line  the line VM::error put in front of the message;             *)
(*   uncaught  what() of an exception that is not a std::runtime_error     *)
(*             (vector::at throws std::out_of_range), "" if none;          *)
(*   returned  the InterpretResult of a return statement of run().         *)
(* Once an exception is in flight the rest of the iteration is skipped.    *)
(* Numbers are doubles in the source and integers here.                    *)
(***************************************************************************)
MAX_CALL_FRAMES == 64

MAX_STACK_SIZE == 64 * 255

NoLine == [kind |-> "none", line |-> 0]

Failed(vm) == vm.err # "" \/ vm.uncaught # ""

NoShortcut == [pending |-> <<>>, finished |-> <<>>]

\* throw std::runtime_error(message)
Throw(vm, message) ==
  IF Failed(vm) THEN vm ELSE [vm EXCEPT !.err = message, !.err_line = {NoLine}]

OutOfRange(vm) ==
  IF Failed(vm) THEN vm ELSE [vm EXCEPT !.uncaught = "out_of_range"]

current_frame(vm) == vm.call_frames[Len(vm.call_frames)]

FrameFunction(vm, frame) == vm.gc.heap[vm.gc.heap[frame.closure].function]

get_chunk(vm) == FrameFunction(vm, current_frame(vm)).chunk

\* Chunk::debuginfo_at.  std::lower_bound returns end() when every entry
\* starts before the offset, and the comparison that follows reads the
\* bytecode_offset of the element past the last one: that value is
\* indeterminate, so the call returns either an indeterminate line (the read
\* happened to equal the offset) or the line of the last entry.
debuginfo_at(chunk, bytecode_offset) ==
  LET d == chunk.debuginfo
      \* the offset is a size_t: ip - 1 wraps when ip is 0
      it == IF bytecode_offset < 0 THEN Len(d)
            ELSE Cardinality({i \in DOMAIN d :
                                d[i].bytecode_offset < bytecode_offset})
      before == IF it = 0 THEN [kind |-> "throw", line |-> 0]
                ELSE [kind |-> "line", line |-> d[it].line]
  IN IF it < Len(d)
     THEN IF d[it + 1].bytecode_offset = bytecode_offset
          THEN {[kind |-> "line", line |-> d[it + 1].line]}
          ELSE {before}
     ELSE {[kind |-> "indeterminate", line |-> 0], before}

\* CallFrame::get_current_debuginfo_line
get_current_debuginfo_line(vm, frame) ==
  debuginfo_at(FrameFunction(vm, frame).chunk, frame.ip - 1)

\* VM::error
error(vm, message) ==
  IF Failed(vm) THEN vm
  ELSE [vm EXCEPT !.err = message,
                  !.err_line = get_current_debuginfo_line(vm, current_frame(vm))]

\* CallFrame::read_byte: chunk.at(ip++)
read_byte(vm) ==
  LET code == get_chunk(vm).code
      ip == current_frame(vm).ip
  IN IF Failed(vm) THEN [vm |-> vm, byte |-> 0]
     ELSE IF ip >= Len(code) THEN [vm |-> OutOfRange(vm), byte |-> 0]
     ELSE [vm |-> [vm EXCEPT !.call_frames[Len(vm.call_frames)].ip = ip + 1],
           byte |-> code[ip + 1]]

\* VM::read_constant
\* get_chunk().constant_at(index), for the index byte rb that read_byte
\* returned.
constant_at(rb) ==
  IF Failed(rb.vm) THEN [vm |-> rb.vm, value |-> Nil]
  ELSE IF rb.byte >= Len(get_chunk(rb.vm).constants)
  THEN [vm |-> OutOfRange(rb.vm), value |-> Nil]
  ELSE [vm |-> rb.vm, value |-> get_chunk(rb.vm).constants[rb.byte + 1]]

read_constant(vm) == constant_at(read_byte(vm))

\* The ObjString of the constant rc, as its contents.
string_of(rc) ==
  [vm |-> rc.vm,
   name |-> IF Failed(rc.vm) THEN "" ELSE rc.vm.gc.heap[rc.value.v].value]

\* VM::read_global_name
read_global_name(vm) == string_of(read_constant(vm))

stack_push(vm, value) ==
  IF Failed(vm) THEN vm
  ELSE IF Len(vm.stack) >= MAX_STACK_SIZE THEN error(vm, "stack overflow")
  ELSE [vm EXCEPT !.stack = Append(@, value)]

stack_pop(vm) ==
  IF Failed(vm) THEN vm
  ELSE IF vm.stack = <<>> THEN error(vm, "stack_pop: stack underflow")
  ELSE [vm EXCEPT !.stack = SubSeq(@, 1, Len(@) - 1)]

\* VM::stack_peek; Top is the value it returns.
stack_peek(vm) ==
  IF Failed(vm) THEN vm
  ELSE IF vm.stack = <<>> THEN error(vm, "stack_peek: stack underflow")
  ELSE vm

Top(vm) == IF vm.stack = <<>> THEN Nil ELSE vm.stack[Len(vm.stack)]

stack_replace_top(vm, new_value) ==
  IF Failed(vm) THEN vm
  ELSE IF vm.stack = <<>> THEN error(vm, "stack_replace_top: stack underflow")
  ELSE [vm EXCEPT !.stack[Len(vm.stack)] = new_value]

\* *(upvalue->location): a slot of the stack or the upvalue's closed field.
\* No slot at or above stack.size() is read or written while every open
\* upvalue points below it.
ReadLocation(vm, upvalue) ==
  LET o == vm.gc.heap[upvalue]
  IN IF ~o.location.on_stack THEN o.closed
     ELSE IF o.location.idx < Len(vm.stack) THEN vm.stack[o.location.idx + 1]
     ELSE Nil

\* A store through an upvalue that is lost.
WriteNowhere(vm, upvalue, value) == vm

WriteLocation(vm, upvalue, value) ==
  LET o == vm.gc.heap[upvalue]
  IN IF ~o.location.on_stack THEN [vm EXCEPT !.gc.heap[upvalue].closed = value]
     ELSE IF o.location.idx < Len(vm.stack)
     THEN [vm EXCEPT !.stack[o.location.idx + 1] = value]
     ELSE vm

\* VM::close_upvalues_after; addr is the index of the stack slot.
RECURSIVE CloseFrom(_, _, _)
CloseFrom(vm, i, addr) ==
  IF i > Len(vm.open_upvalues) THEN vm
  ELSE LET upvalue_ptr == vm.open_upvalues[i]
           o == vm.gc.heap[upvalue_ptr]
       IN IF o.location.idx >= addr
          THEN CloseFrom(
                 [vm EXCEPT
                    !.gc.heap[upvalue_ptr].closed = ReadLocation(vm, upvalue_ptr),
                    !.gc.heap[upvalue_ptr].location = OwnClosed,
                    !.open_upvalues = SubSeq(@, 1, i - 1)
                                        \o SubSeq(@, i + 1, Len(@))],
                 i, addr)
          ELSE CloseFrom(vm, i + 1, addr)

\* A VM that leaves its upvalues open.
CloseNoUpvalues(vm, addr) == vm

close_upvalues_after(vm, addr) ==
  IF Failed(vm) THEN vm ELSE CloseFrom(vm, 1, addr)

VMRoots(vm) ==
  Roots(vm.stack, vm.globals, vm.call_frames, vm.open_upvalues,
        parser.compilers)

\* A call that does not look at the number of frames.
CallUnchecked(vm, callee, arg_count) ==
  LET arity == vm.gc.heap[vm.gc.heap[callee].function].arity
  IN IF Failed(vm) THEN vm
     ELSE IF arity # arg_count
     THEN Throw(vm, "expected " \o ToString(arity) \o " arguments but got "
                      \o ToString(arg_count))
     ELSE [vm EXCEPT !.call_frames =
             Append(@, [closure |-> callee, ip |-> 0,
                        stack_start |-> Len(vm.stack) - arg_count - 1])]

\* A call that does not compare the arity with the argument count.
CallIgnoresArity(vm, callee, arg_count) ==
  IF Failed(vm) THEN vm
  ELSE IF Len(vm.call_frames) >= MAX_CALL_FRAMES
  THEN Throw(vm, "stack overflow: too many nested function calls")
  ELSE [vm EXCEPT !.call_frames =
          Append(@, [closure |-> callee, ip |-> 0,
                     stack_start |-> Len(vm.stack) - arg_count - 1])]

\* VM::call
call(vm, callee, arg_count) ==
  LET arity == vm.gc.heap[vm.gc.heap[callee].function].arity
  IN IF Failed(vm) THEN vm
     ELSE IF Len(vm.call_frames) >= MAX_CALL_FRAMES
     THEN Throw(vm, "stack overflow: too many nested function calls")
     ELSE IF arity # arg_count
     THEN Throw(vm, "expected " \o ToString(arity) \o " arguments but got "
                      \o ToString(arg_count))
     ELSE [vm EXCEPT !.call_frames =
             Append(@, [closure |-> callee, ip |-> 0,
                        stack_start |-> Len(vm.stack) - arg_count - 1])]

\* A search that finds no open upvalue.
FindNoUpvalue(vm, slot) == NULL

\* The std::find_if of CLOSURE: the open upvalue whose location is the
\* slot, or NULL for open_upvalues.end().
find_open_upvalue(vm, slot) ==
  LET found == {i \in DOMAIN vm.open_upvalues :
                  vm.gc.heap[vm.open_upvalues[i]].location = StackSlot(slot)}
  IN IF found = {} THEN NULL
     ELSE vm.open_upvalues[CHOOSE i \in found : \A j \in found : i <= j]

\* One iteration of the upvalue loop of CLOSURE, for an is_local upvalue.
capture_local(vm, c_clos, index) ==
  LET stack_index == current_frame(vm).stack_start + index
      existing == find_open_upvalue(vm, stack_index)
      upvalue == vm.gc.brk
      g1 == alloc(vm.gc, VMRoots(vm), ObjUpvalue(StackSlot(stack_index)))
  IN IF stack_index >= Len(vm.stack)
     THEN error(vm, "get_local_variable: invalid local variable index")
     ELSE IF existing # NULL
     THEN [vm EXCEPT !.gc.heap[c_clos].upvalues = Append(@, existing)]
     ELSE [vm EXCEPT !.gc = [g1 EXCEPT !.heap[c_clos].upvalues = Append(@, upvalue)],
                     !.open_upvalues = Append(@, upvalue)]

\* One iteration, for an upvalue of the enclosing function.
capture_enclosing(vm, c_clos, index) ==
  LET ups == vm.gc.heap[current_frame(vm).closure].upvalues
  IN IF index >= Len(ups) THEN OutOfRange(vm)
     ELSE [vm EXCEPT !.gc.heap[c_clos].upvalues = Append(@, ups[index + 1])]

RECURSIVE CaptureLoop(_, _, _)
CaptureLoop(vm, c_clos, remaining) ==
  IF Failed(vm) \/ remaining = 0 THEN vm
  ELSE LET b1 == read_byte(vm)
           b2 == read_byte(b1.vm)
       IN IF Failed(b2.vm) THEN b2.vm
          ELSE CaptureLoop(IF b1.byte # 0
                           THEN capture_local(b2.vm, c_clos, b2.byte)
                           ELSE capture_enclosing(b2.vm, c_clos, b2.byte),
                           c_clos, remaining - 1)

\* gc.alloc<ObjClosure>(fn) with fn on top of the stack, then stack_pop()
\* and stack_push(closure): the sequence shared by CLOSURE and
\* invoke_toplevel.
alloc_closure(vm, fn, compilers) ==
  IF Failed(vm) THEN vm
  ELSE [vm EXCEPT !.gc = alloc(vm.gc,
                               Roots(vm.stack, vm.globals, vm.call_frames,
                                     vm.open_upvalues, compilers),
                               ObjClosure(fn))]

push_closure(vm) ==
  IF Failed(vm) THEN vm ELSE stack_push(stack_pop(vm), ObjVal(vm.gc.head))

\* The upvalue loop of CLOSURE for the closure on top of the stack.
capture_upvalues(vm, c_fn) ==
  IF Failed(vm) THEN vm
  ELSE CaptureLoop(vm, Top(vm).v, Len(vm.gc.heap[c_fn].upvalues))

\* rc is the function constant read_constant returned.
make_closure(rc) ==
  capture_upvalues(
    push_closure(alloc_closure(stack_push(rc.vm, ObjVal(rc.value.v)),
                               rc.value.v, parser.compilers)),
    rc.value.v)

OpCLOSURE(vm) == make_closure(read_constant(vm))

push_constant(rc) == stack_push(rc.vm, rc.value)

OpCONSTANT(vm) == push_constant(read_constant(vm))

\* closure->upvalues.at(upvalue_index)
upvalue_at(vm, upvalue_index) ==
  LET ups == vm.gc.heap[current_frame(vm).closure].upvalues
  IN IF upvalue_index >= Len(ups) THEN NULL ELSE ups[upvalue_index + 1]

\* The cases of the switch take the operand byte rb that read_byte
\* returned.
get_upvalue(rb) ==
  LET upvalue == upvalue_at(rb.vm, rb.byte)
  IN IF Failed(rb.vm) THEN rb.vm
     ELSE IF upvalue = NULL THEN OutOfRange(rb.vm)
     ELSE stack_push(rb.vm, ReadLocation(rb.vm, upvalue))

OpGET_UPVALUE(vm) == get_upvalue(read_byte(vm))

\* A SET_UPVALUE that pops the value it stored.
SetUpvaluePops(rb) ==
  LET upvalue == upvalue_at(rb.vm, rb.byte)
      v1 == stack_peek(rb.vm)
  IN IF Failed(rb.vm) THEN rb.vm
     ELSE IF upvalue = NULL THEN OutOfRange(rb.vm)
     ELSE IF Failed(v1) THEN v1
     ELSE stack_pop(WriteLocation(v1, upvalue, Top(v1)))

set_upvalue(rb) ==
  LET upvalue == upvalue_at(rb.vm, rb.byte)
      v1 == stack_peek(rb.vm)
  IN IF Failed(rb.vm) THEN rb.vm
     ELSE IF upvalue = NULL THEN OutOfRange(rb.vm)
     ELSE IF Failed(v1) THEN v1
     ELSE WriteLocation(v1, upvalue, Top(v1))

OpSET_UPVALUE(vm) == set_upvalue(read_byte(vm))

\* stack_top_address() is the address of slot stack.size() - 1.
OpCLOSE_UPVALUE(vm) ==
  IF vm.stack = <<>> THEN error(vm, "stack_top_address: stack underflow")
  ELSE stack_pop(close_upvalues_after(vm, Len(vm.stack) - 1))

OpNEGATE(vm) ==
  LET value == Top(vm)
      v1 == stack_pop(vm)
  IN IF Failed(v1) THEN v1
     ELSE IF value.t = "num" THEN stack_push(v1, Number(0 - value.v))
     ELSE error(v1, "operand must be a number")

\* stack_modify_top with !is_truthy
OpNOT(vm) ==
  IF vm.stack = <<>> THEN error(vm, "stack_modify_top: stack underflow")
  ELSE [vm EXCEPT !.stack[Len(vm.stack)] = Bool(~is_truthy(@))]

\* lox::add (value.cpp), for operands that are not both numbers: the
\* contents of both strings are read before get_string_ptr allocates.
push_string(vm, sp) == stack_push([vm EXCEPT !.gc = sp.gc], ObjVal(sp.ptr))

add(vm, a, b) ==
  IF Failed(vm) THEN vm
  ELSE IF /\ a.t = "obj" /\ b.t = "obj"
          /\ vm.gc.heap[a.v].type = "STRING"
          /\ vm.gc.heap[b.v].type = "STRING"
  THEN push_string(vm, get_string_ptr(vm.gc, VMRoots(vm),
                                      vm.gc.heap[a.v].value
                                        \o vm.gc.heap[b.v].value))
  ELSE Throw(vm, "operands to + must be two numbers or two strings")

\* v2 is the VM after stack_pop() and stack_peek() returned b and a.
add_operands(v2, a, b) ==
  IF Failed(v2) THEN v2
  ELSE IF a.t = "num" /\ b.t = "num"
  THEN stack_replace_top(v2, Number(a.v + b.v))
  ELSE add(stack_pop(v2), a, b)

OpADD(vm) ==
  add_operands(stack_peek(stack_pop(vm)), Top(stack_pop(vm)), Top(vm))

\* The lambdas handed to handle_binary_op.  DIVIDE is exact division on the
\* integers of the model.
BinaryResult(opname, a, b) ==
  CASE opname = "SUBTRACT" -> Number(a - b)
    [] opname = "MULTIPLY" -> Number(a * b)
    [] opname = "DIVIDE" -> Number(IF b = 0 THEN 0 ELSE a \div b)
    [] opname = "GREATER" -> Bool(a > b)
    [] opname = "LESS" -> Bool(a < b)

\* VM::handle_binary_op (vm.hpp)
binary_operands(v2, opname, a, b) ==
  IF Failed(v2) THEN v2
  ELSE IF a.t = "num" /\ b.t = "num"
  THEN stack_replace_top(v2, BinaryResult(opname, a.v, b.v))
  ELSE error(v2, "operands must be numbers")

handle_binary_op(vm, opname) ==
  binary_operands(stack_peek(stack_pop(vm)), opname, Top(stack_pop(vm)), Top(vm))

push_result(vm, value) == IF Failed(vm) THEN vm ELSE stack_push(vm, value)

OpEQUAL(vm) ==
  push_result(stack_pop(stack_pop(vm)),
              Bool(is_equal(Top(stack_pop(vm)), Top(vm))))

\* operator<<(std::ostream&, const Value&)
Repr(heap, value) ==
  CASE value.t = "nil" -> "nil"
    [] value.t = "bool" -> IF value.v = 1 THEN "true" ELSE "false"
    [] value.t = "num" -> ToString(value.v)
    [] value.t = "obj" -> to_repr(heap, value.v)

OpPRINT(vm) ==
  LET value == Top(vm)
      v1 == stack_pop(vm)
  IN IF Failed(v1) THEN v1
     ELSE [v1 EXCEPT !.output = Append(@, Repr(v1.gc.heap, value))]

OpPOP(vm) == stack_pop(vm)

\* The cases of the switch take the name rn that read_global_name
\* returned.
define_global(rn) ==
  LET v1 == stack_peek(rn.vm)
  IN IF Failed(v1) THEN v1
     ELSE stack_pop([v1 EXCEPT !.globals = (rn.name :> Top(v1)) @@ @])

OpDEFINE_GLOBAL(vm) == define_global(read_global_name(vm))

get_global(rn) ==
  IF Failed(rn.vm) THEN rn.vm
  ELSE IF rn.name \notin DOMAIN rn.vm.globals
  THEN error(rn.vm, "undefined variable " \o rn.name)
  ELSE stack_push(rn.vm, rn.vm.globals[rn.name])

OpGET_GLOBAL(vm) == get_global(read_global_name(vm))

\* A SET_GLOBAL that binds the name if it has to, as operator[] would.
SetGlobalDefines(rn) ==
  LET v1 == stack_peek(rn.vm)
  IN IF Failed(v1) THEN v1
     ELSE [v1 EXCEPT !.globals = (rn.name :> Top(v1)) @@ @]

set_global(rn) ==
  LET v1 == stack_peek(rn.vm)
  IN IF Failed(rn.vm) THEN rn.vm
     ELSE IF rn.name \notin DOMAIN rn.vm.globals
     THEN error(rn.vm, "undefined variable " \o rn.name)
     ELSE IF Failed(v1) THEN v1
     ELSE [v1 EXCEPT !.globals[rn.name] = Top(v1)]

OpSET_GLOBAL(vm) == set_global(read_global_name(vm))

set_local(rb) ==
  LET stack_index == current_frame(rb.vm).stack_start + rb.byte
      v1 == stack_peek(rb.vm)
  IN IF Failed(rb.vm) THEN rb.vm
     ELSE IF rb.byte > Len(rb.vm.stack)
     THEN error(rb.vm, "SET_LOCAL: invalid local variable index")
     ELSE IF Failed(v1) THEN v1
     ELSE IF stack_index >= Len(v1.stack)
     THEN error(v1, "set_local_variable: invalid local variable index")
     ELSE [v1 EXCEPT !.stack[stack_index + 1] = Top(v1)]

OpSET_LOCAL(vm) == set_local(read_byte(vm))

get_local(rb) ==
  LET stack_index == current_frame(rb.vm).stack_start + rb.byte
  IN IF Failed(rb.vm) THEN rb.vm
     ELSE IF rb.byte > Len(rb.vm.stack)
     THEN error(rb.vm, "GET_LOCAL: invalid local variable index")
     ELSE IF stack_index >= Len(rb.vm.stack)
     THEN error(rb.vm, "get_local_variable: invalid local variable index")
     ELSE stack_push(rb.vm, rb.vm.stack[stack_index + 1])

OpGET_LOCAL(vm) == get_local(read_byte(vm))

\* get_jump_offset: the two bytes as an int16_t.
get_jump_offset(high_byte, low_byte) ==
  LET u == high_byte * 256 + low_byte
  IN IF u >= 32768 THEN u - 65536 ELSE u

\* CallFrame::shift_ip
shift_ip(vm, offset) ==
  LET ip == current_frame(vm).ip + offset
  IN IF Failed(vm) THEN vm
     ELSE IF ip < 0 THEN Throw(vm, "shift_ip: negative offset out of bounds")
     ELSE IF ip > Len(get_chunk(vm).code)
     THEN Throw([vm EXCEPT !.call_frames[Len(vm.call_frames)].ip = ip],
                "shift_ip: positive offset out of bounds")
     ELSE [vm EXCEPT !.call_frames[Len(vm.call_frames)].ip = ip]

\* high and low are the two operand bytes as read_byte returned them.
jump(high, low) == shift_ip(low.vm, get_jump_offset(high.byte, low.byte))

read_low_byte(high) == jump(high, read_byte(high.vm))

OpJUMP(vm) == read_low_byte(read_byte(vm))

OpJUMP_IF_FALSE(vm) ==
  LET v1 == stack_peek(vm)
  IN IF Failed(v1) THEN v1
     ELSE IF ~is_truthy(Top(v1)) THEN OpJUMP(v1)
     ELSE shift_ip(v1, 2)

\* ObjNativeFunction::call with clock_native and sleep_native; tick is what
\* std::clock() returns.
native_call(vm, native_fnptr, nargs, tick) ==
  LET o == vm.gc.heap[native_fnptr]
      arg == vm.stack[Len(vm.stack) - nargs + 1]
  IN IF nargs # o.arity
     THEN [vm |-> Throw(vm, "expected " \o ToString(o.arity)
                              \o " arguments but got " \o ToString(nargs)),
           retval |-> Nil]
     ELSE IF o.name = "clock" THEN [vm |-> vm, retval |-> Number(tick)]
     ELSE IF arg.t # "num"
     THEN [vm |-> Throw(vm, "sleep expects one numeric argument"), retval |-> Nil]
     ELSE IF arg.v < 0
     THEN [vm |-> Throw(vm, "sleep duration must be non-negative"), retval |-> Nil]
     ELSE [vm |-> vm, retval |-> Nil]

\* nc is what the native function returned or threw.
native_return(nc, nargs) ==
  stack_push([nc.vm EXCEPT !.stack = SubSeq(@, 1, Len(@) - nargs - 1)],
             nc.retval)

\* The CALL case, for the operand byte rb.
call_value(rb, tick) ==
  LET nargs == rb.byte
      v1 == rb.vm
      maybe_objptr == v1.stack[Len(v1.stack) - nargs]
      type == v1.gc.heap[maybe_objptr.v].type
  IN IF Failed(v1) THEN v1
     ELSE IF maybe_objptr.t # "obj"
     THEN Throw(v1, "objptr was not a pointer to Obj")
     ELSE IF type = "CLOSURE" THEN call(v1, maybe_objptr.v, nargs)
     ELSE IF type = "NATIVE_FUNCTION"
     THEN native_return(native_call(v1, maybe_objptr.v, nargs, tick), nargs)
     ELSE Throw(v1, "can only call closure or native function")

OpCALL(vm, tick) == call_value(read_byte(vm), tick)

\* return InterpretResult::OK, after the top-level closure was popped.
return_ok(vm) == IF Failed(vm) THEN vm ELSE [vm EXCEPT !.returned = "OK"]

\* call_frames.pop_back(), after the return value was pushed.
pop_frame(vm) ==
  IF Failed(vm) THEN vm
  ELSE [vm EXCEPT !.call_frames = SubSeq(@, 1, Len(@) - 1)]

\* A RETURN that leaves the callee and its arguments on the stack.
ReturnKeepsSlots(vm, retval) ==
  IF Failed(vm) THEN vm
  ELSE IF Len(vm.call_frames) = 1 THEN return_ok(stack_pop(vm))
  ELSE pop_frame(stack_push(vm, retval))

\* The RETURN case once the upvalues of the frame are closed.
return_value(vm, retval) ==
  IF Failed(vm) THEN vm
  ELSE IF Len(vm.call_frames) = 1 THEN return_ok(stack_pop(vm))
  ELSE pop_frame(stack_push([vm EXCEPT !.stack =
                               SubSeq(@, 1, current_frame(vm).stack_start)],
                            retval))

close_frame(vm) == close_upvalues_after(vm, current_frame(vm).stack_start)

OpRETURN(vm) == return_value(close_frame(stack_pop(vm)), Top(vm))

(***************************************************************************)
(* VM::run, one iteration of the loop per step.                            *)
(***************************************************************************)
NoThrow == [what |-> "", line |-> NoLine, executed |-> 0]

\* step before the first instruction.
NoStep ==
  [op |-> "", stack |-> <<>>, call_frames |-> <<>>, globals |-> <<>>,
   open_upvalues |-> <<>>, heap |-> <<>>]

\* The byte read_byte() returns at the top of the loop, as the name of the
\* opcode it is cast to; "" for a byte that is no enumerator.
FetchedOp ==
  LET frame == call_frames[Len(call_frames)]
      byte == gc.heap[gc.heap[frame.closure].function].chunk.code[frame.ip + 1]
  IN IF byte + 1 \in DOMAIN OpNames THEN OpNames[byte + 1] ELSE ""

StartRun ==
  [gc |-> BeginOp(gc), stack |-> stack, call_frames |-> call_frames,
   globals |-> globals, open_upvalues |-> open_upvalues, output |-> output,
   err |-> "", err_line |-> {NoLine}, uncaught |-> "", returned |-> "NONE"]

\* The loop condition holds and read_byte() returns the opcode.
Instruction(opname) ==
  /\ pc = "run"
  /\ LET frame == call_frames[Len(call_frames)]
         code == gc.heap[gc.heap[frame.closure].function].chunk.code
     IN frame.ip < Len(code) /\ code[frame.ip + 1] = OpCode(opname)

Fetched == read_byte(StartRun).vm

\* A catch clause that falls through to the return of OK.
RunCatchReturnsOk(vm) == {"OK"}

\* The catch clause of VM::run: it asks every frame for its line before it
\* returns, and an exception thrown there leaves run().
run_catch(vm) ==
  IF \E i \in DOMAIN vm.call_frames :
       \E l \in get_current_debuginfo_line(vm, vm.call_frames[i]) :
         l.kind = "throw"
  THEN {"RUNTIME_ERROR", "CRASH"}
  ELSE {"RUNTIME_ERROR"}

\* History of the and and or expressions: one begins with the
\* JUMP_IF_FALSE behind its left operand, whose value is on top of the
\* stack, and ends when the frame it began in is at the first byte behind
\* its right operand; ran says whether the first instruction of the right
\* operand was read.  finished are the ones the last instruction ended.
Begun(pending) ==
  LET frame == call_frames[Len(call_frames)]
      fn == gc.heap[frame.closure].function
      begun == {r \in gc.heap[fn].chunk.shorts : r.at = frame.ip}
  IN IF begun = {} THEN pending
     ELSE Append(pending, [rec |-> CHOOSE r \in begun : TRUE,
                           frames |-> Len(call_frames),
                           base |-> Len(stack) - 1,
                           left |-> stack[Len(stack)],
                           ran |-> FALSE])

Entered(pending) ==
  LET frame == call_frames[Len(call_frames)]
      fn == gc.heap[frame.closure].function
  IN [i \in DOMAIN pending |->
        IF /\ pending[i].frames = Len(call_frames)
           /\ pending[i].rec.fn = fn
           /\ pending[i].rec.right = frame.ip
        THEN [pending[i] EXCEPT !.ran = TRUE] ELSE pending[i]]

Ended(entry, v1) ==
  /\ ~Failed(v1)
  /\ entry.frames = Len(v1.call_frames)
  /\ v1.call_frames[Len(v1.call_frames)].ip = entry.rec.end

Tracked(v1) ==
  LET pending == Entered(Begun(shortcut.pending))
      Over(entry) == Ended(entry, v1)
      Open(entry) == ~Ended(entry, v1)
  IN [pending |-> SelectSeq(pending, Open),
      finished |-> SelectSeq(pending, Over)]

\* The end of an iteration: the loop condition of VM::run and what follows
\* the loop, then the exception handling and the return statements.
Finish(v1) ==
     /\ shortcut' = Tracked(v1)
     /\ gc' = v1.gc
     /\ stack' = v1.stack
     /\ call_frames' = v1.call_frames
     /\ globals' = v1.globals
     /\ open_upvalues' = v1.open_upvalues
     /\ output' = v1.output
     /\ executed' = executed + 1
     /\ step' = [op |-> FetchedOp, stack |-> stack,
                 call_frames |-> call_frames, globals |-> globals,
                 open_upvalues |-> open_upvalues, heap |-> gc.heap]
     /\ IF v1.uncaught # ""
        THEN result' = "CRASH" /\ pc' = "done" /\ thrown' = thrown
        ELSE IF v1.err # ""
        THEN /\ \E l \in v1.err_line :
                  thrown' = [what |-> v1.err, line |-> l,
                             executed |-> executed + 1]
             /\ result' \in run_catch(v1)
             /\ pc' = "done"
        ELSE IF v1.returned # "NONE"
        THEN result' = v1.returned /\ pc' = "done" /\ thrown' = thrown
        ELSE UNCHANGED <<result, pc, thrown>>
     /\ UNCHANGED <<gc_debug, source, parser, ref, lox_chunk, looked_up,
                     pushed, marking>>

loop_condition(vm) ==
  IF ~Failed(vm) /\ vm.returned = "NONE"
       /\ current_frame(vm).ip >= Len(get_chunk(vm).code)
  THEN IF current_frame(vm).ip = Len(get_chunk(vm).code)
       THEN [vm EXCEPT !.returned = "OK"]
       ELSE Throw(vm, "unexpected end of bytecode")
  ELSE vm

EndIteration(vm) == Finish(loop_condition(vm))

\* The values std::clock() / CLOCKS_PER_SEC takes.
MaxClock == 1

ClockTicks == 0..MaxClock

RunCONSTANT ==
  /\ Instruction("CONSTANT")
  /\ EndIteration(OpCONSTANT(Fetched))

RunCLOSURE ==
  /\ Instruction("CLOSURE")
  /\ EndIteration(OpCLOSURE(Fetched))

RunGET_UPVALUE ==
  /\ Instruction("GET_UPVALUE")
  /\ EndIteration(OpGET_UPVALUE(Fetched))

RunSET_UPVALUE ==
  /\ Instruction("SET_UPVALUE")
  /\ EndIteration(OpSET_UPVALUE(Fetched))

RunCLOSE_UPVALUE ==
  /\ Instruction("CLOSE_UPVALUE")
  /\ EndIteration(OpCLOSE_UPVALUE(Fetched))

RunNEGATE ==
  /\ Instruction("NEGATE")
  /\ EndIteration(OpNEGATE(Fetched))

RunNOT ==
  /\ Instruction("NOT")
  /\ EndIteration(OpNOT(Fetched))

RunADD ==
  /\ Instruction("ADD")
  /\ EndIteration(OpADD(Fetched))

RunEQUAL ==
  /\ Instruction("EQUAL")
  /\ EndIteration(OpEQUAL(Fetched))

RunPRINT ==
  /\ Instruction("PRINT")
  /\ EndIteration(OpPRINT(Fetched))

RunPOP ==
  /\ Instruction("POP")
  /\ EndIteration(OpPOP(Fetched))

RunDEFINE_GLOBAL ==
  /\ Instruction("DEFINE_GLOBAL")
  /\ EndIteration(OpDEFINE_GLOBAL(Fetched))

RunGET_GLOBAL ==
  /\ Instruction("GET_GLOBAL")
  /\ EndIteration(OpGET_GLOBAL(Fetched))

RunSET_GLOBAL ==
  /\ Instruction("SET_GLOBAL")
  /\ EndIteration(OpSET_GLOBAL(Fetched))

RunSET_LOCAL ==
  /\ Instruction("SET_LOCAL")
  /\ EndIteration(OpSET_LOCAL(Fetched))

RunGET_LOCAL ==
  /\ Instruction("GET_LOCAL")
  /\ EndIteration(OpGET_LOCAL(Fetched))

RunJUMP_IF_FALSE ==
  /\ Instruction("JUMP_IF_FALSE")
  /\ EndIteration(OpJUMP_IF_FALSE(Fetched))

RunJUMP ==
  /\ Instruction("JUMP")
  /\ EndIteration(OpJUMP(Fetched))

RunRETURN ==
  /\ Instruction("RETURN")
  /\ EndIteration(OpRETURN(Fetched))

RunSUBTRACT ==
  /\ Instruction("SUBTRACT")
  /\ EndIteration(handle_binary_op(Fetched, "SUBTRACT"))

RunMULTIPLY ==
  /\ Instruction("MULTIPLY")
  /\ EndIteration(handle_binary_op(Fetched, "MULTIPLY"))

RunDIVIDE ==
  /\ Instruction("DIVIDE")
  /\ EndIteration(handle_binary_op(Fetched, "DIVIDE"))

RunGREATER ==
  /\ Instruction("GREATER")
  /\ EndIteration(handle_binary_op(Fetched, "GREATER"))

RunLESS ==
  /\ Instruction("LESS")
  /\ EndIteration(handle_binary_op(Fetched, "LESS"))

RunCALL ==
  /\ Instruction("CALL")
  /\ \E tick \in ClockTicks : EndIteration(OpCALL(Fetched, tick))

\* The opcodes the switch of VM::run has a case for.
SwitchCases ==
  {"CONSTANT", "CLOSURE", "GET_UPVALUE", "SET_UPVALUE", "CLOSE_UPVALUE",
   "NEGATE", "NOT", "ADD", "SUBTRACT", "MULTIPLY", "DIVIDE", "EQUAL",
   "GREATER", "LESS", "PRINT", "POP", "DEFINE_GLOBAL", "GET_GLOBAL",
   "SET_GLOBAL", "SET_LOCAL", "GET_LOCAL", "JUMP_IF_FALSE", "JUMP", "CALL",
   "RETURN"}

\* The switch has no default: a byte without a case (CLASS, DEFINE_METHOD,
\* GET_PROPERTY, SET_PROPERTY, a byte that is no opcode) is read and nothing
\* else happens, so its operand is the next byte the loop reads as an opcode.
RunNoCase ==
  /\ pc = "run"
  /\ LET frame == call_frames[Len(call_frames)]
     IN frame.ip < Len(gc.heap[gc.heap[frame.closure].function].chunk.code)
  /\ FetchedOp \notin SwitchCases
  /\ EndIteration(Fetched)

(***************************************************************************)
(* VM::invoke_toplevel from the return of parser->parse() up to the call   *)
(* of run().  After a compile error finalise_function returns nullptr, the *)
(* closure is allocated around it, and VM::call reads                      *)
(* callee->function->arity through the null pointer: the read faults, or   *)
(* yields a value that is not 0 and the exception of the arity check       *)
(* leaves interpret(), or yields 0, a frame is pushed and run() reads the  *)
(* chunk through the same null pointer.                                    *)
(***************************************************************************)
toplevel_closure(fin) ==
  push_closure(
    alloc_closure(stack_push([StartRun EXCEPT !.gc = fin.cs.gc],
                             ObjVal(fin.fnptr)),
                  fin.fnptr, fin.cs.compilers))

\* call(top_level_closure, 0) and the test that follows it; fin is what
\* finalise_function returned and vm the VM with the closure on its stack.
enter_toplevel(fin, vm) ==
  /\ gc' = vm.gc
  /\ stack' = vm.stack
  /\ parser' = [parser EXCEPT !.compilers = fin.cs.compilers,
                              !.errmsg = fin.cs.errmsg,
                              !.first = fin.cs.first,
                              !.late = fin.cs.late,
                              !.resolved = fin.cs.resolved]
  /\ IF fin.fnptr = NULL
     THEN /\ \E entered \in BOOLEAN :
               call_frames' = IF entered
                              THEN <<[closure |-> Top(vm).v, ip |-> 0,
                                      stack_start |-> 0]>>
                              ELSE <<>>
          /\ result' = "CRASH"
          /\ pc' = "done"
     ELSE /\ call_frames' = call(vm, Top(vm).v, 0).call_frames
          /\ IF Top(vm).v = NULL
             THEN result' = "COMPILE_ERROR" /\ pc' = "done"
             ELSE result' = result /\ pc' = "run"
  /\ UNCHANGED <<gc_debug, source, globals, open_upvalues, output, thrown,
                 executed, step, ref, lox_chunk, looked_up, pushed,
                 marking, shortcut>>

invoke_toplevel(fin) == enter_toplevel(fin, toplevel_closure(fin))

InvokeToplevel ==
  /\ pc = "compile"
  /\ parser.ctx = <<>>
  /\ AtEnd \/ parser.errmsg # NoError
  /\ invoke_toplevel(finalise_function(StartCompile(FALSE)))

\* The same source is then interpreted by the build with LOX_GC_DEBUG.
InterpretWithGcDebug ==
  /\ pc = "done"
  /\ ~gc_debug
  /\ gc_debug' = TRUE
  /\ ref' = [result |-> result, output |-> output]
  /\ gc' = ConstructedGC
  /\ parser' = ConstructedParser
  /\ stack' = <<>>
  /\ call_frames' = <<>>
  /\ globals' = <<>>
  /\ open_upvalues' = <<>>
  /\ result' = "NONE"
  /\ output' = <<>>
  /\ thrown' = NoThrow
  /\ executed' = 0
  /\ step' = NoStep
  /\ pc' = "natives"
  /\ UNCHANGED <<source, lox_chunk, looked_up, pushed, marking, shortcut>>

(***************************************************************************)
(* The sources interpret() is run on.  Suite is written by hand, one       *)
(* program per feature of the language and per kind of error; Generated is *)
(* every sequence of at most MaxSrcLen items over a small alphabet, which  *)
(* covers unbalanced braces, returns at top level and sources that end     *)
(* inside a block or a function body.                                      *)
(***************************************************************************)
Num(n) == <<"number", n>>
Str(str) == <<"string", str>>
Ref(name) == <<"variable", name>>
Assign(name, e) == <<"assign", name, e>>
Unary(op, e) == <<"unary", op, e>>
Binary(op, l, r) == <<"binary", op, l, r>>
Call(callee, args) == <<"call", callee, args>>

\* if (name) { ... } [else { ... }] and while (name) { ... }: the condition
\* is the variable name, and params holds the code size of each body, which
\* is a block of expression statements on that variable (see Body).
If(name, n) == Item("if", name, <<n>>, Ref(name))
IfElse(name, n, m) == Item("if", name, <<n, m>>, Ref(name))
While(name, n) == Item("while", name, <<n>>, Ref(name))
\* for (init; cond; incr) { ... } with a body of n bytes on the local name
For(init, cond, incr, name, n) == Item("for", name, <<n>>, <<init, cond, incr>>)

Suite ==
  { <<>>,
    \* print 1 + 2;
    <<PrintStmt(Binary("+", Num(1), Num(2)))>>,
    \* fun make() { var c = 0; fun inc() { c = c + 1; return c; } return inc; }
    \* var f = make(); print f(); print f();
    <<FunDecl("make", <<>>),
        VarDecl("c", Num(0)),
        FunDecl("inc", <<>>),
          ExprStmt(Assign("c", Binary("+", Ref("c"), Num(1)))),
          ReturnStmt(Ref("c")),
        RBrace,
        ReturnStmt(Ref("inc")),
      RBrace,
      VarDecl("f", Call(Ref("make"), <<>>)),
      PrintStmt(Call(Ref("f"), <<>>)),
      PrintStmt(Call(Ref("f"), <<>>))>>,
    \* { var a = 1; fun f() { return a; } fun g() { a = a + 1; } g(); print f(); }
    <<LBrace,
        VarDecl("a", Num(1)),
        FunDecl("f", <<>>), ReturnStmt(Ref("a")), RBrace,
        FunDecl("g", <<>>),
          ExprStmt(Assign("a", Binary("+", Ref("a"), Num(1)))),
        RBrace,
        ExprStmt(Call(Ref("g"), <<>>)),
        PrintStmt(Call(Ref("f"), <<>>)),
      RBrace>>,
    \* fun outer() { var x = "s"; fun mid() { fun inner() { return x; }
    \*   return inner; } return mid; }  print outer()()();
    <<FunDecl("outer", <<>>),
        VarDecl("x", Str("s")),
        FunDecl("mid", <<>>),
          FunDecl("inner", <<>>), ReturnStmt(Ref("x")), RBrace,
          ReturnStmt(Ref("inner")),
        RBrace,
        ReturnStmt(Ref("mid")),
      RBrace,
      PrintStmt(Call(Call(Call(Ref("outer"), <<>>), <<>>), <<>>))>>,
    \* fun mk() { var x = "a"; fun get() { return x; } fun set() { x = x + "b"; }
    \*   set(); return get; }  print mk()();
    <<FunDecl("mk", <<>>),
        VarDecl("x", Str("a")),
        FunDecl("get", <<>>), ReturnStmt(Ref("x")), RBrace,
        FunDecl("set", <<>>),
          ExprStmt(Assign("x", Binary("+", Ref("x"), Str("b")))),
        RBrace,
        ExprStmt(Call(Ref("set"), <<>>)),
        ReturnStmt(Ref("get")),
      RBrace,
      PrintStmt(Call(Call(Ref("mk"), <<>>), <<>>))>>,
    \* var h; { var a = 1; fun f() { a = a + 1; print a; } h = f; } h(); h();
    <<VarDecl("h", <<>>),
      LBrace,
        VarDecl("a", Num(1)),
        FunDecl("f", <<>>),
          ExprStmt(Assign("a", Binary("+", Ref("a"), Num(1)))),
          PrintStmt(Ref("a")),
        RBrace,
        ExprStmt(Assign("h", Ref("f"))),
      RBrace,
      ExprStmt(Call(Ref("h"), <<>>)),
      ExprStmt(Call(Ref("h"), <<>>))>>,
    \* fun adder(n) { fun add(m) { return n + m; } return add; }
    \* var a2 = adder(2); print a2(3); print adder;
    <<FunDecl("adder", <<"n">>),
        FunDecl("add", <<"m">>),
          ReturnStmt(Binary("+", Ref("n"), Ref("m"))),
        RBrace,
        ReturnStmt(Ref("add")),
      RBrace,
      VarDecl("a2", Call(Ref("adder"), <<Num(2)>>)),
      PrintStmt(Call(Ref("a2"), <<Num(3)>>)),
      PrintStmt(Ref("adder"))>>,
    \* { var a = 1; var b = 2; fun f() { return a + b; } print f(); }
    <<LBrace,
        VarDecl("a", Num(1)),
        VarDecl("b", Num(2)),
        FunDecl("f", <<>>),
          ReturnStmt(Binary("+", Ref("a"), Ref("b"))),
        RBrace,
        PrintStmt(Call(Ref("f"), <<>>)),
      RBrace>>,
    \* { var a = 1; { var b = a; a = b + 1; print a; } }
    <<LBrace,
        VarDecl("a", Num(1)),
        LBrace,
          VarDecl("b", Ref("a")),
          ExprStmt(Assign("a", Binary("+", Ref("b"), Num(1)))),
          PrintStmt(Ref("a")),
        RBrace,
      RBrace>>,
    \* var g = 1; g = g + 1; print g;
    <<VarDecl("g", Num(1)),
      ExprStmt(Assign("g", Binary("+", Ref("g"), Num(1)))),
      PrintStmt(Ref("g"))>>,
    \* var s = "a" + "b"; print s == "ab"; "c" + "d"; "a" + "b"; print s + "c";
    <<VarDecl("s", Binary("+", Str("a"), Str("b"))),
      PrintStmt(Binary("==", Ref("s"), Str("ab"))),
      ExprStmt(Binary("+", Str("c"), Str("d"))),
      ExprStmt(Binary("+", Str("a"), Str("b"))),
      PrintStmt(Binary("+", Ref("s"), Str("c")))>>,
    \* "a" + "b"; "c" + "d"; print "a" + "b";
    <<ExprStmt(Binary("+", Str("a"), Str("b"))),
      ExprStmt(Binary("+", Str("c"), Str("d"))),
      PrintStmt(Binary("+", Str("a"), Str("b")))>>,
    \* print nil or 1; print 1 and 2; print false and 1; print 1 or 2;
    <<PrintStmt(<<"or", <<"nil">>, Num(1)>>),
      PrintStmt(<<"and", Num(1), Num(2)>>),
      PrintStmt(<<"and", <<"false">>, Num(1)>>),
      PrintStmt(<<"or", Num(1), Num(2)>>)>>,
    \* print 0 and 1; print "" and 2; print 0 or 1; print "" or 2;
    \* print nil and 1; print false or 0;
    <<PrintStmt(<<"and", Num(0), Num(1)>>),
      PrintStmt(<<"and", Str(""), Num(2)>>),
      PrintStmt(<<"or", Num(0), Num(1)>>),
      PrintStmt(<<"or", Str(""), Num(2)>>),
      PrintStmt(<<"and", <<"nil">>, Num(1)>>),
      PrintStmt(<<"or", <<"false">>, Num(0)>>)>>,
    \* print "a" + "b" == "a" + "b"; print "a" == "b"; print "" == nil;
    \* print clock == clock; print clock == sleep; print true == true;
    \* print 0 == false; print 2 == 2;
    <<PrintStmt(Binary("==", Binary("+", Str("a"), Str("b")),
                             Binary("+", Str("a"), Str("b")))),
      PrintStmt(Binary("==", Str("a"), Str("b"))),
      PrintStmt(Binary("==", Str(""), <<"nil">>)),
      PrintStmt(Binary("==", Ref("clock"), Ref("clock"))),
      PrintStmt(Binary("==", Ref("clock"), Ref("sleep"))),
      PrintStmt(Binary("==", <<"true">>, <<"true">>)),
      PrintStmt(Binary("==", Num(0), <<"false">>)),
      PrintStmt(Binary("==", Num(2), Num(2)))>>,
    \* print 6 / 3 * 2 - 1 > 0; print 1 < 2; print 1 <= 2; print 1 >= 2;
    \* print 1 != 2; print !true; print -1; print nil == nil; print 1 == true;
    <<PrintStmt(Binary(">", Binary("-", Binary("*", Binary("/", Num(6), Num(3)),
                                                Num(2)), Num(1)), Num(0))),
      PrintStmt(Binary("<", Num(1), Num(2))),
      PrintStmt(Binary("<=", Num(1), Num(2))),
      PrintStmt(Binary(">=", Num(1), Num(2))),
      PrintStmt(Binary("!=", Num(1), Num(2))),
      PrintStmt(Unary("!", <<"true">>)),
      PrintStmt(Unary("-", Num(1))),
      PrintStmt(Binary("==", <<"nil">>, <<"nil">>)),
      PrintStmt(Binary("==", Num(1), <<"true">>))>>,
    \* print sleep(0); clock(); print clock;
    <<PrintStmt(Call(Ref("sleep"), <<Num(0)>>)),
      ExprStmt(Call(Ref("clock"), <<>>)),
      PrintStmt(Ref("clock"))>>,
    \* fun f() { f(); } f();
    <<FunDecl("f", <<>>), ExprStmt(Call(Ref("f"), <<>>)), RBrace,
      ExprStmt(Call(Ref("f"), <<>>))>>,
    \* fun f() { var a; print a * 2; } print 1; f();
    <<FunDecl("f", <<>>),
        VarDecl("a", <<>>),
        PrintStmt(Binary("*", Ref("a"), Num(2))),
      RBrace,
      PrintStmt(Num(1)),
      ExprStmt(Call(Ref("f"), <<>>))>>,
    \* fun mk() { var x = 0; fun inc() { x = x + 1; return x; } return inc; }
    \* var c = mk(); print c(); print c(); print c();
    <<FunDecl("mk", <<>>),
        VarDecl("x", Num(0)),
        FunDecl("inc", <<>>),
          ExprStmt(Assign("x", Binary("+", Ref("x"), Num(1)))),
          ReturnStmt(Ref("x")),
        RBrace,
        ReturnStmt(Ref("inc")),
      RBrace,
      VarDecl("c", Call(Ref("mk"), <<>>)),
      PrintStmt(Call(Ref("c"), <<>>)),
      PrintStmt(Call(Ref("c"), <<>>)),
      PrintStmt(Call(Ref("c"), <<>>))>>,
    \* class C {} print C();
    <<ClassDecl("C"), RBrace, PrintStmt(Call(Ref("C"), <<>>))>>,
    \* class A { init(x) { print x; } get() { return 1; } } A(42);
    <<ClassDecl("A"),
        Method("init", <<"x">>), PrintStmt(Ref("x")), RBrace,
        Method("get", <<>>), ReturnStmt(Num(1)), RBrace,
      RBrace,
      ExprStmt(Call(Ref("A"), <<Num(42)>>))>>,
    \* { class B {} }
    <<LBrace, ClassDecl("B"), RBrace, RBrace>>,
    \* class D { m() {
    <<ClassDecl("D"), Method("m", <<>>)>>,
    \* The runtime errors, one per program.
    <<PrintStmt(Unary("-", Str("a")))>>,
    <<PrintStmt(Binary("+", Num(1), Str("a")))>>,
    <<PrintStmt(Binary("-", Str("a"), Num(1)))>>,
    <<PrintStmt(Binary("/", Num(1), <<"nil">>))>>,
    <<PrintStmt(Binary(">", <<"true">>, Num(1)))>>,
    <<PrintStmt(Binary("<", Num(1), Str("a")))>>,
    <<PrintStmt(Num(1)), PrintStmt(Ref("x")), PrintStmt(Num(2))>>,
    <<ExprStmt(Assign("x", Num(1)))>>,
    <<ExprStmt(Call(Str("s"), <<>>))>>,
    <<ExprStmt(Call(Num(1), <<>>))>>,
    <<FunDecl("f", <<"a">>), RBrace, ExprStmt(Call(Ref("f"), <<>>))>>,
    <<ExprStmt(Call(Ref("sleep"), <<>>))>>,
    <<ExprStmt(Call(Ref("sleep"), <<Str("x")>>))>>,
    <<ExprStmt(Call(Ref("sleep"), <<Unary("-", Num(1))>>))>>,
    \* The compile errors, one per program.
    <<PrintStmt(<<"none">>)>>,
    <<PrintStmt(Num(1)), PrintStmt(<<"none">>)>>,
    <<VarDecl("a", <<"none">>)>>,
    <<LBrace, VarDecl("x", <<>>), VarDecl("x", <<>>), RBrace>>,
    <<ReturnStmt(Num(1))>>,
    <<FunDecl("f", <<"a", "a">>), RBrace>>,
    <<FunDecl("f", <<>>), PrintStmt(<<"none">>), RBrace, PrintStmt(Num(1))>> }

MaxSrcLen == 3

Alphabet ==
  { LBrace, RBrace,
    VarDecl("a", Str("s")),
    FunDecl("f", <<>>),
    ReturnStmt(Ref("a")),
    PrintStmt(Call(Ref("f"), <<>>)),
    ExprStmt(Assign("a", Binary("+", Ref("a"), Ref("a")))) }

Generated == UNION {[1..n -> Alphabet] : n \in 0..MaxSrcLen}

\* 1; 1; ... with n statements: n constants in the top-level chunk.
ManyConstants(n) == [i \in 1..n |-> ExprStmt(Num(1))]

\* fun f() { var v1; ... var vn; with n variable declarations.
ManyLocals(n) ==
  <<FunDecl("f", <<>>)>> \o [i \in 1..n |-> VarDecl("v" \o ToString(i), <<>>)]

\* Sources at the limits of the one-byte operands: 256 and 257 constants in
\* one chunk, and 255 and 256 local variables in one function.
Limits ==
  { ManyConstants(256),
    ManyConstants(257),
    Append(ManyLocals(255), RBrace),
    Append(ManyLocals(256), RBrace) }

\* Sources that declare one name twice: at depth 0, in one block, in one
\* block two levels down, as parameter and local of one function, and in a
\* block inside the scope of the first declaration.
Scopes ==
  { \* var a = 1; var a = 2; print a;
    <<VarDecl("a", Num(1)), VarDecl("a", Num(2)), PrintStmt(Ref("a"))>>,
    \* { { var y; var y; } }
    <<LBrace, LBrace, VarDecl("y", <<>>), VarDecl("y", <<>>), RBrace, RBrace>>,
    \* { var a = 1; { var a = 2; print a; } print a; }
    <<LBrace, VarDecl("a", Num(1)),
        LBrace, VarDecl("a", Num(2)), PrintStmt(Ref("a")), RBrace,
        PrintStmt(Ref("a")), RBrace>>,
    \* fun f(a) { var a; }
    <<FunDecl("f", <<"a">>), VarDecl("a", <<>>), RBrace>>,
    \* fun f(a) { { var a = 2; print a; } print a; } f(1);
    <<FunDecl("f", <<"a">>),
        LBrace, VarDecl("a", Num(2)), PrintStmt(Ref("a")), RBrace,
        PrintStmt(Ref("a")), RBrace,
      ExprStmt(Call(Ref("f"), <<Num(1)>>))>> }

\* Functions that end without a return, with return; and with return v;.
Returns ==
  { \* fun f() {} print f();
    <<FunDecl("f", <<>>), RBrace, PrintStmt(Call(Ref("f"), <<>>))>>,
    \* fun f(a) { print a; } print f(1);
    <<FunDecl("f", <<"a">>), PrintStmt(Ref("a")), RBrace,
      PrintStmt(Call(Ref("f"), <<Num(1)>>))>>,
    \* fun f() { return; print 1; } print f();
    <<FunDecl("f", <<>>), ReturnStmt(<<>>), PrintStmt(Num(1)), RBrace,
      PrintStmt(Call(Ref("f"), <<>>))>>,
    \* fun f() { return 1; } print f();
    <<FunDecl("f", <<>>), ReturnStmt(Num(1)), RBrace,
      PrintStmt(Call(Ref("f"), <<>>))>>,
    \* fun f() { return nil; } print f();
    <<FunDecl("f", <<>>), ReturnStmt(<<"nil">>), RBrace,
      PrintStmt(Call(Ref("f"), <<>>))>>,
    \* fun f() { { return; } } fun g() { f(); } print g();
    <<FunDecl("f", <<>>), LBrace, ReturnStmt(<<>>), RBrace, RBrace,
      FunDecl("g", <<>>), ExprStmt(Call(Ref("f"), <<>>)), RBrace,
      PrintStmt(Call(Ref("g"), <<>>))>> }

\* Sources with more than one error in a statement, and with a '=' behind
\* something that is no variable.
Erroneous ==
  { \* return +;
    <<ReturnStmt(<<"none">>)>>,
    \* 1 = 2;
    <<ExprStmt(<<"leftover", Num(1)>>)>>,
    \* var a; (a) = 1;
    <<VarDecl("a", <<>>), ExprStmt(<<"leftover", <<"group", Ref("a")>>>>)>>,
    \* var a; var b; a + b = 3;
    <<VarDecl("a", <<>>), VarDecl("b", <<>>),
      ExprStmt(Binary("+", Ref("a"), Assign("b", Num(3))))>>,
    \* { var a; -a = 1; }
    <<LBrace, VarDecl("a", <<>>), ExprStmt(Unary("-", Assign("a", Num(1)))),
      RBrace>>,
    \* var a; var b; (a = 1) + (b = 2); print a + b;
    <<VarDecl("a", <<>>), VarDecl("b", <<>>),
      ExprStmt(Binary("+", <<"group", Assign("a", Num(1))>>,
                           <<"group", Assign("b", Num(2))>>)),
      PrintStmt(Binary("+", Ref("a"), Ref("b")))>> }

\* Functions that capture locals of the functions and blocks around them.
Capturing ==
  { \* { var a = 1; { var a = 2; fun f() { fun g() { print a; } g(); }
    \*   f(); } }
    <<LBrace, VarDecl("a", Num(1)),
        LBrace, VarDecl("a", Num(2)),
          FunDecl("f", <<>>),
            FunDecl("g", <<>>), PrintStmt(Ref("a")), RBrace,
            ExprStmt(Call(Ref("g"), <<>>)), RBrace,
          ExprStmt(Call(Ref("f"), <<>>)), RBrace, RBrace>>,
    \* { var a = 1; var b = 2;
    \*   fun f() { fun g() { print a + b; print a; } print b; g(); } f(); }
    <<LBrace, VarDecl("a", Num(1)), VarDecl("b", Num(2)),
        FunDecl("f", <<>>),
          FunDecl("g", <<>>),
            PrintStmt(Binary("+", Ref("a"), Ref("b"))),
            PrintStmt(Ref("a")), RBrace,
          PrintStmt(Ref("b")),
          ExprStmt(Call(Ref("g"), <<>>)), RBrace,
        ExprStmt(Call(Ref("f"), <<>>)), RBrace>> }

\* and and or with a call and with another and or or as right operand.
ShortCircuits ==
  { \* fun f() { print 9; return 2; }
    \* print false and f(); print 1 and f(); print nil or f(); print 1 or f();
    <<FunDecl("f", <<>>), PrintStmt(Num(9)), ReturnStmt(Num(2)), RBrace,
      PrintStmt(<<"and", <<"false">>, Call(Ref("f"), <<>>)>>),
      PrintStmt(<<"and", Num(1), Call(Ref("f"), <<>>)>>),
      PrintStmt(<<"or", <<"nil">>, Call(Ref("f"), <<>>)>>),
      PrintStmt(<<"or", Num(1), Call(Ref("f"), <<>>)>>)>>,
    \* print 1 and (nil and 2); print nil or (0 or 3);
    \* print (nil or 0) and (false or 3);
    <<PrintStmt(<<"and", Num(1), <<"group", <<"and", <<"nil">>, Num(2)>>>>>>),
      PrintStmt(<<"or", <<"nil">>, <<"group", <<"or", Num(0), Num(3)>>>>>>),
      PrintStmt(<<"and", <<"group", <<"or", <<"nil">>, Num(0)>>>>,
                         <<"group", <<"or", <<"false">>, Num(3)>>>>>>)>> }

Programs ==
  Suite \cup Limits \cup Scopes \cup Returns \cup Erroneous \cup Capturing
    \cup ShortCircuits
    \cup Generated

\* interpret() on one of the sources.
\* No call of debuginfo_at was made on lox_chunk yet.
NoLookups == <<>>

\* The last call on lox_chunk was not push_constant.
NoIndex == <<>>

\* No collection is being run by hand.
NoMarking == [phase |-> "none", pushed |-> <<>>, popped |-> <<>>]

Start(sources) ==
  /\ gc_debug = FALSE
  /\ source \in sources
  /\ pc = "natives"
  /\ gc = ConstructedGC
  /\ parser = ConstructedParser
  /\ stack = <<>>
  /\ call_frames = <<>>
  /\ globals = <<>>
  /\ open_upvalues = <<>>
  /\ result = "NONE"
  /\ output = <<>>
  /\ thrown = NoThrow
  /\ executed = 0
  /\ step = NoStep
  /\ ref = NoRef
  /\ lox_chunk = NewChunk
  /\ looked_up = NoLookups
  /\ pushed = NoIndex
  /\ marking = NoMarking
  /\ shortcut = NoShortcut

Init == Start(Programs)

Next ==
  \/ DefineNative
  \/ VarDeclaration
  \/ FunDeclaration
  \/ FunctionEnd
  \/ ClassDeclaration
  \/ MethodDeclaration
  \/ MethodEnd
  \/ ClassEnd
  \/ BlockBegin
  \/ BlockEnd
  \/ PrintStatement
  \/ ReturnStatement
  \/ ExpressionStatement
  \/ InvokeToplevel
  \/ RunCONSTANT
  \/ RunCLOSURE
  \/ RunGET_UPVALUE
  \/ RunSET_UPVALUE
  \/ RunCLOSE_UPVALUE
  \/ RunNEGATE
  \/ RunNOT
  \/ RunADD
  \/ RunEQUAL
  \/ RunPRINT
  \/ RunPOP
  \/ RunDEFINE_GLOBAL
  \/ RunGET_GLOBAL
  \/ RunSET_GLOBAL
  \/ RunSET_LOCAL
  \/ RunGET_LOCAL
  \/ RunJUMP_IF_FALSE
  \/ RunJUMP
  \/ RunRETURN
  \/ RunSUBTRACT
  \/ RunMULTIPLY
  \/ RunDIVIDE
  \/ RunGREATER
  \/ RunLESS
  \/ RunCALL
  \/ RunNoCase
  \/ InterpretWithGcDebug

Spec == Init /\ [][Next]_vars

(***************************************************************************)
(* Jumps over code of any length.  The sources are one if, while or for    *)
(* statement on a local variable, with bodies from nothing up to the sizes *)
(* around the reach of a 16-bit offset: an if reaches 32767 with a body of *)
(* 32763 bytes, a while reaches -32768 with one of 32759.  The run of a    *)
(* body of more than MaxStepwise bytes is one step, RunBody: its           *)
(* statements leave the stack as they found it.  A while loop on a true    *)
(* variable never ends; its jump back is taken while fewer than MaxExecuted*)
(* instructions were executed.                                             *)
(***************************************************************************)
MaxStepwise == 4

MaxExecuted == 16

BodySizes == {0, 3, 4, 32757, 32759, 32760, 32763, 32764}

JumpStatements ==
  {If("x", n) : n \in BodySizes} \cup {While("x", n) : n \in BodySizes}
    \cup {IfElse("x", n, m) : n \in {0, 3}, m \in BodySizes}

\* for statements with and without initialiser, condition and increment.
ForStatements ==
  { \* for (; x; ) { [x;] }
    For(<<>>, Ref("x"), <<>>, "x", 0),
    For(<<>>, Ref("x"), <<>>, "x", 3),
    \* for (;;) { x; }
    For(<<>>, <<>>, <<>>, "x", 3),
    \* for (;; !x) { x; }
    For(<<>>, <<>>, Unary("!", Ref("x")), "x", 3),
    \* for (!x; x; !x) { x; }
    For(<<"expr", Unary("!", Ref("x"))>>, Ref("x"), Unary("!", Ref("x")),
        "x", 3),
    \* for (; x; x = false) { x; }
    For(<<>>, Ref("x"), Assign("x", <<"false">>), "x", 3),
    \* for (var y = x; y; ) { y; }
    For(<<"var", "y", Ref("x")>>, Ref("y"), <<>>, "y", 3),
    \* for (var y = !x; ; !y) { !y; }
    For(<<"var", "y", Unary("!", Ref("x"))>>, <<>>, Unary("!", Ref("y")),
        "y", 4) }

JumpPrograms ==
  {<<LBrace, VarDecl("x", c), st, RBrace>> :
     c \in {<<"true">>, <<"false">>}, st \in JumpStatements \cup ForStatements}

\* The frame is at the first byte of a body too long to run step by step.
AtLongBody ==
  LET frame == call_frames[Len(call_frames)]
  IN \E b \in gc.heap[gc.heap[frame.closure].function].chunk.bodies :
       frame.ip = b.from /\ b.to - b.from > MaxStepwise

RunBody ==
  /\ pc = "run"
  /\ LET frame == call_frames[Len(call_frames)]
     IN \E b \in gc.heap[gc.heap[frame.closure].function].chunk.bodies :
          /\ frame.ip = b.from
          /\ call_frames' = [call_frames EXCEPT ![Len(call_frames)].ip = b.to]
  /\ executed' = executed + 1
  /\ step' = NoStep
  /\ UNCHANGED <<gc_debug, source, pc, gc, stack, globals, open_upvalues,
                 parser, result, output, thrown, ref, lox_chunk, looked_up,
                 pushed, marking, shortcut>>

StepInShortBody == pc = "run" /\ ~AtLongBody /\ RunGET_LOCAL

JumpBack == executed < MaxExecuted /\ RunJUMP

JumpInit == Start(JumpPrograms)

JumpNext ==
  \/ DefineNative
  \/ BlockBegin
  \/ VarDeclaration
  \/ IfStatement
  \/ WhileStatement
  \/ ForStatement
  \/ BlockEnd
  \/ InvokeToplevel
  \/ RunCONSTANT
  \/ StepInShortBody
  \/ RunNOT
  \/ RunSET_LOCAL
  \/ RunJUMP_IF_FALSE
  \/ JumpBack
  \/ RunPOP
  \/ RunBody
  \/ RunRETURN

JumpSpec == JumpInit /\ [][JumpNext]_vars

(***************************************************************************)
(* The chunk on its own.  A lox::Chunk is a class with public member       *)
(* functions, and tests/main.cpp uses one without a compiler: any byte and *)
(* any line may be written.  ChunkSpec builds lox_chunk by calls of write, *)
(* patch_at_offset, push_constant and reset and calls debuginfo_at on it    *)
(* where the table meets the precondition of std::lower_bound; the         *)
(* interpreter stays where Start put it.                                   *)
(***************************************************************************)
MaxChunk == 3

MaxLine == 3

ChunkBytes == {0, 1}

interpreter == <<gc_debug, source, pc, gc, stack, call_frames, globals,
                 open_upvalues, parser, result, output, thrown, executed,
                 step, ref, shortcut>>

\* chunk.write(byte, line)
WriteByte ==
  /\ Len(lox_chunk.code) < MaxChunk
  /\ \E byte \in ChunkBytes, line \in 1..MaxLine :
       lox_chunk' = ChunkWrite(lox_chunk, byte, line)
  /\ looked_up' = NoLookups
  /\ pushed' = NoIndex
  /\ UNCHANGED <<interpreter, marking>>

\* The constants pushed to lox_chunk, and how many of them.
ChunkValues == {Nil, Number(1)}

MaxConstants == 2

\* chunk.push_constant(value)
PushConstant ==
  /\ Len(lox_chunk.constants) < MaxConstants
  /\ \E value \in ChunkValues :
       /\ lox_chunk' = ChunkPushConstant(lox_chunk, value)
       /\ pushed' = <<PushedIndex(lox_chunk')>>
  /\ looked_up' = NoLookups
  /\ UNCHANGED <<interpreter, marking>>

\* chunk.patch_at_offset(offset, byte)
PatchAtOffset ==
  /\ \E offset \in 0..Len(lox_chunk.code), byte \in ChunkBytes :
       lox_chunk' = ChunkPatchAtOffset(lox_chunk, offset, byte)
  /\ looked_up' = NoLookups
  /\ pushed' = NoIndex
  /\ UNCHANGED <<interpreter, marking>>

\* The line table grows with resets; no reset once it has MaxEntries.
MaxEntries == 2

\* chunk.reset()
ResetChunk ==
  /\ Len(lox_chunk.debuginfo) < MaxEntries
  /\ lox_chunk' = ChunkReset(lox_chunk)
  /\ looked_up' = NoLookups
  /\ pushed' = NoIndex
  /\ UNCHANGED <<interpreter, marking>>

\* The precondition of std::lower_bound: the entries with a smaller offset
\* come before the others.
Partitioned(d, bytecode_offset) ==
  \A i, j \in DOMAIN d :
    (i < j /\ d[j].bytecode_offset < bytecode_offset)
      => d[i].bytecode_offset < bytecode_offset

\* The last two of the calls.
LastTwo(calls) == IF Len(calls) > 2 THEN Tail(calls) ELSE calls

\* chunk.debuginfo_at(bytecode_offset)
LookUpLine ==
  /\ \E bytecode_offset \in 0..Len(lox_chunk.code) :
       \E outcome \in debuginfo_at(lox_chunk, bytecode_offset) :
         /\ Partitioned(lox_chunk.debuginfo, bytecode_offset)
         /\ looked_up' = LastTwo(Append(looked_up,
                                     [bytecode_offset |-> bytecode_offset,
                                      outcome |-> outcome]))
  /\ pushed' = NoIndex
  /\ UNCHANGED lox_chunk
  /\ UNCHANGED <<interpreter, marking>>

ChunkInit == Start({<<>>})

ChunkNext ==
  \/ WriteByte
  \/ PatchAtOffset
  \/ PushConstant
  \/ ResetChunk
  \/ LookUpLine

ChunkSpec == ChunkInit /\ [][ChunkNext]_vars

(***************************************************************************)
(* The collector on its own.  GC is a class with public member functions:  *)
(* alloc<T> for every object class of value.hpp, mark_as_grey and gc.      *)
(* GcSpec starts from a default-constructed GC (no allocation callback),   *)
(* allocates up to MaxObjects objects, stores pointers to them in the      *)
(* fields of other objects, and runs collections the way VM::maybe_gc      *)
(* does: the caller marks roots, then calls gc().  The loop of GC::gc is   *)
(* taken one iteration per step.  A behaviour ends with the heap as the    *)
(* first collection left it.                                               *)
(***************************************************************************)
MaxObjects == 3

OfType(heap, type) == {h \in DOMAIN heap : heap[h].type = type}

\* The objects the constructors of value.hpp can build from the pointers at
\* hand.
Constructible(heap) ==
  {ObjString("s"), ObjFunction("f", 0), ObjUpvalue(OwnClosed),
   ObjNativeFunction("clock", 0)}
    \cup {ObjClosure(function) : function \in OfType(heap, "FUNCTION")}
    \cup {ObjClass(name) : name \in OfType(heap, "STRING") \cup {NULL}}
    \cup {ObjInstance(klass) : klass \in OfType(heap, "CLASS") \cup {NULL}}
    \cup {ObjBoundMethod(receiver, closure) :
            receiver \in OfType(heap, "INSTANCE") \cup {NULL},
            closure \in OfType(heap, "CLOSURE") \cup {NULL}}

NoRoots == Roots(<<>>, <<>>, <<>>, <<>>, <<>>)

collector_free == <<gc_debug, source, pc, stack, call_frames, globals,
                    open_upvalues, parser, result, output, thrown, executed,
                    step, ref, shortcut, lox_chunk, looked_up, pushed>>

\* gc.alloc<T>(...)
AllocObject ==
  /\ marking.phase = "none"
  /\ gc.brk <= MaxObjects
  /\ \E obj \in Constructible(gc.heap) :
       gc' = [alloc(BeginOp(gc), NoRoots, obj) EXCEPT !.pending = {},
                                                      !.unrooted = {}]
  /\ UNCHANGED <<collector_free, marking>>

\* The object o after the mutator stored a pointer to target in it, under
\* key where the field is a map: chunk.push_constant, *location = value,
\* upvalues.push_back, methods[key] = closure, fields[key] = value.
Stored(heap, o, key, target) ==
  CASE o.type = "FUNCTION" /\ o.chunk.constants = <<>> ->
         [o EXCEPT !.chunk = ChunkPushConstant(@, ObjVal(target))]
    [] o.type = "UPVALUE" -> [o EXCEPT !.closed = ObjVal(target)]
    [] o.type = "CLOSURE" /\ heap[target].type = "UPVALUE"
         /\ o.upvalues = <<>> ->
         [o EXCEPT !.upvalues = Append(@, target)]
    [] o.type = "CLASS" /\ heap[target].type = "CLOSURE"
         /\ o.methods = <<>> ->
         [o EXCEPT !.methods = (key :> target)]
    [] o.type = "INSTANCE" /\ o.fields = <<>> ->
         [o EXCEPT !.fields = (key :> ObjVal(target))]
    [] OTHER -> o

StoreReference ==
  /\ marking.phase = "none"
  /\ \E h \in DOMAIN gc.heap, target \in DOMAIN gc.heap,
        key \in OfType(gc.heap, "STRING") \cup {NULL} :
       /\ Stored(gc.heap, gc.heap[h], key, target) # gc.heap[h]
       /\ gc' = [gc EXCEPT !.heap[h] = Stored(gc.heap, @, key, target)]
  /\ UNCHANGED <<collector_free, marking>>

\* The caller starts to mark its roots.
BeginMarking ==
  /\ marking.phase = "none"
  /\ gc.heap # <<>>
  /\ marking' = [NoMarking EXCEPT !.phase = "roots"]
  /\ UNCHANGED <<collector_free, gc>>

\* What a step appended to the grey stack, of which kept elements stayed.
NewlyGrey(g, kept) == SubSeq(g.grey_stack, kept + 1, Len(g.grey_stack))

\* gc.mark_as_grey(value) by the caller, for any value.
MarkRoot ==
  /\ marking.phase = "roots"
  /\ \E value \in {Nil, Number(1)} \cup {ObjVal(h) : h \in DOMAIN gc.heap} :
       gc' = mark_value_as_grey(gc, value)
  /\ marking' = [marking EXCEPT
                   !.pushed = @ \o NewlyGrey(gc', Len(gc.grey_stack))]
  /\ UNCHANGED collector_free

\* The caller calls gc.gc().
EnterGc ==
  /\ marking.phase = "roots"
  /\ marking' = [marking EXCEPT !.phase = "gc"]
  /\ UNCHANGED <<collector_free, gc>>

\* One iteration of the loop of GC::gc over the grey stack.
PropagateStep ==
  /\ marking.phase = "gc"
  /\ gc.grey_stack # <<>>
  /\ LET n == Len(gc.grey_stack)
         objptr == gc.grey_stack[n]
         g1 == [gc EXCEPT !.grey_stack = SubSeq(@, 1, n - 1)]
     IN /\ gc' = IF objptr = NULL THEN g1 ELSE MarkChildren(g1, objptr)
        /\ marking' = [marking EXCEPT
                         !.pushed = @ \o NewlyGrey(gc', n - 1),
                         !.popped = Append(@, objptr)]
  /\ UNCHANGED collector_free

\* The rest of GC::gc once the grey stack is empty.
SweepHeap ==
  /\ marking.phase = "gc"
  /\ gc.grey_stack = <<>>
  /\ gc' = UpdateThreshold(SweepAll(ClearInternedStrings(gc)))
  /\ marking' = [marking EXCEPT !.phase = "swept"]
  /\ UNCHANGED collector_free

GcInit ==
  /\ gc_debug = FALSE
  /\ source = <<>>
  /\ pc = "natives"
  /\ gc = NewGC
  /\ parser = ConstructedParser
  /\ stack = <<>>
  /\ call_frames = <<>>
  /\ globals = <<>>
  /\ open_upvalues = <<>>
  /\ result = "NONE"
  /\ output = <<>>
  /\ thrown = NoThrow
  /\ executed = 0
  /\ step = NoStep
  /\ ref = NoRef
  /\ lox_chunk = NewChunk
  /\ looked_up = NoLookups
  /\ pushed = NoIndex
  /\ marking = NoMarking
  /\ shortcut = NoShortcut

GcNext ==
  \/ AllocObject
  \/ StoreReference
  \/ BeginMarking
  \/ MarkRoot
  \/ EnterGc
  \/ PropagateStep
  \/ SweepHeap

GcSpec == GcInit /\ [][GcNext]_vars

\* GC::gc runs to its end once it is called: the loop iterates while the
\* grey stack is not empty, and the sweep follows.
GcFairSpec == GcSpec /\ WF_vars(PropagateStep) /\ WF_vars(SweepHeap)

(***************************************************************************)
(* Properties.  CurrentRoots are the roots VM::maybe_gc would mark in the  *)
(* current state; ObjectList is the walk of the collector's intrusive list *)
(* (GC::list_objects), which stops at a pointer that is not a live object. *)
(***************************************************************************)
CurrentRoots ==
  Roots(stack, globals, call_frames, open_upvalues, parser.compilers)

RECURSIVE ObjectList(_, _, _)
ObjectList(heap, objptr, seen) ==
  IF objptr = NULL THEN seen
  ELSE IF objptr \in seen \/ objptr \notin DOMAIN heap THEN seen \cup {objptr}
  ELSE ObjectList(heap, heap[objptr].next, seen \cup {objptr})

LiveStrings(g) == {h \in DOMAIN g.heap : g.heap[h].type = "STRING"}

LiveUpvalues(g) == {h \in DOMAIN g.heap : g.heap[h].type = "UPVALUE"}

LiveClosures(g) == {h \in DOMAIN g.heap : g.heap[h].type = "CLOSURE"}

LiveFunctions(g) == {h \in DOMAIN g.heap : g.heap[h].type = "FUNCTION"}

OpenSet == {open_upvalues[i] : i \in DOMAIN open_upvalues}

(***************************************************************************)
(* The instruction VM::run executed last, from step: its frame, its chunk  *)
(* and its operand bytes.                                                  *)
(***************************************************************************)
StepFrame == step.call_frames[Len(step.call_frames)]

StepCode == step.heap[step.heap[StepFrame.closure].function].chunk.code

\* The k-th operand byte of the instruction.
StepOperand(k) == StepCode[StepFrame.ip + 1 + k]

\* The frame of the instruction as the instruction left it, if it is still
\* there.
SameFrame == call_frames[Len(step.call_frames)]

\* C1: when the parser has recorded a compile error by the end of
\* compilation, interpret returns COMPILE_ERROR, no instruction is executed
\* and no call frame is entered.
CompileErrorReported ==
  (pc = "done" /\ parser.errmsg # NoError)
    => (result = "COMPILE_ERROR" /\ executed = 0 /\ call_frames = <<>>)

\* C2: when an instruction raises a runtime error, VM::run returns
\* RUNTIME_ERROR, no further instruction is executed, and the run never
\* returns OK.
RuntimeErrorStopsRun ==
  thrown # NoThrow
    => (pc = "done" /\ result = "RUNTIME_ERROR"
          /\ executed = thrown.executed)

\* A runtime error raised in a called function, after the program printed.
RuntimeErrorInCallee ==
  /\ thrown # NoThrow
  /\ result = "RUNTIME_ERROR"
  /\ Len(call_frames) >= 2
  /\ output # <<>>

\* C3: after a collection started by maybe_gc, every object that was
\* reachable from the roots (stack, globals, frame closures, open upvalues,
\* compiler functions) is still in the collector's object list.
KeepsReachable(c) ==
  Reachable(c.before.heap, c.roots)
    \subseteq ObjectList(c.after.heap, c.after.head, {})

GcKeepsReachable == \A i \in DOMAIN gc.log : KeepsReachable(gc.log[i])

\* A collection that freed an object and kept one that only another object
\* refers to.
FreedAndKept(c) ==
  /\ DOMAIN c.after.heap # DOMAIN c.before.heap
  /\ Reachable(c.before.heap, c.roots) # c.roots

GcFreedAndKept == \E i \in DOMAIN gc.log : FreedAndKept(gc.log[i])

\* C4: when GC::gc returns, every unreachable object is unlinked and freed,
\* every survivor is unmarked, the grey stack is empty, the interned table
\* has no entry for a freed string and the threshold is twice the bytes
\* allocated.
GcPostcondition(c) ==
  /\ DOMAIN c.after.heap \subseteq Reachable(c.before.heap, c.roots)
  /\ ObjectList(c.after.heap, c.after.head, {}) = DOMAIN c.after.heap
  /\ \A h \in DOMAIN c.after.heap : ~c.after.heap[h].is_marked
  /\ c.after.grey_stack = <<>>
  /\ \A k \in DOMAIN c.after.interned_strings :
       c.after.interned_strings[k] \in DOMAIN c.after.heap
  /\ c.after.next_gc_threshold = 2 * c.after.bytes_allocated

GcLeavesCleanHeap == \A i \in DOMAIN gc.log : GcPostcondition(gc.log[i])

\* A collection that removed an entry of the interned table.
PurgedInterned(c) ==
  DOMAIN c.after.interned_strings # DOMAIN c.before.interned_strings

GcPurgedInterned == \E i \in DOMAIN gc.log : PurgedInterned(gc.log[i])

\* C5: no two live ObjStrings have the same content, and get_string_ptr
\* called with the content of a live string returns that same object.
StringsUnique ==
  /\ \A h1, h2 \in LiveStrings(gc) :
       gc.heap[h1].value = gc.heap[h2].value => h1 = h2
  /\ \A h \in LiveStrings(gc) :
       get_string_ptr(gc, CurrentRoots, gc.heap[h].value).ptr = h

\* A collection has just removed a string from the interned table, and one
\* function refers to the same string from two constants.
SameStringTwice(fn) ==
  \E i, j \in DOMAIN fn.chunk.constants :
    /\ i < j
    /\ fn.chunk.constants[i] = fn.chunk.constants[j]
    /\ fn.chunk.constants[i].t = "obj"
    /\ fn.chunk.constants[i].v \in LiveStrings(gc)

InternedAcrossCollection ==
  /\ GcPurgedInterned
  /\ \E h \in LiveFunctions(gc) : SameStringTwice(gc.heap[h])

\* C6: with a collection before every allocation no path uses a freed
\* object: every object GC::alloc returned is reachable from a root before
\* the next allocation, no live pointer refers to a freed object, and the
\* result and the output equal those of the run without collections.
NoDangling(g) ==
  /\ RootSet(CurrentRoots) \subseteq DOMAIN g.heap
  /\ \A h \in DOMAIN g.heap : ObjRefs(g.heap[h]) \subseteq DOMAIN g.heap

ForcedGcIsTransparent ==
  /\ gc.unrooted = {}
  /\ gc.pending \subseteq Reachable(gc.heap, RootSet(CurrentRoots))
  /\ NoDangling(gc)
  /\ (pc = "done" /\ gc_debug)
       => (result = ref.result /\ output = ref.output)

\* A run of the debug build that printed, ended with OK and freed objects
\* on the way.
DebugRunFreedObjects ==
  /\ pc = "done"
  /\ gc_debug
  /\ result = "OK"
  /\ output # <<>>
  /\ gc.brk - 1 > Cardinality(DOMAIN gc.heap)

\* C7: an upvalue is either open (it is in open_upvalues and its location
\* is a stack slot below stack.size()) or closed (its location is its own
\* closed field and it is not in open_upvalues).
IsOpen(u) ==
  /\ u \in OpenSet
  /\ gc.heap[u].location.on_stack
  /\ gc.heap[u].location.idx < Len(stack)

IsClosed(u) == u \notin OpenSet /\ gc.heap[u].location = OwnClosed

UpvalueDuality ==
  /\ OpenSet \subseteq LiveUpvalues(gc)
  /\ \A u \in LiveUpvalues(gc) : IsOpen(u) \/ IsClosed(u)

\* An open upvalue and a closed one that holds a value, at the same time.
OpenAndClosedUpvalue ==
  /\ \E u \in LiveUpvalues(gc) : IsOpen(u)
  /\ \E u \in LiveUpvalues(gc) : IsClosed(u) /\ gc.heap[u].closed # Nil

\* C8: no two entries of open_upvalues have the same location; CLOSURE
\* reuses the open upvalue of a slot.
OpenUpvaluesDistinct ==
  \A i, j \in DOMAIN open_upvalues :
    i # j => gc.heap[open_upvalues[i]].location
               # gc.heap[open_upvalues[j]].location

\* Two closures share one open upvalue.
Captures(c, u) == \E k \in DOMAIN gc.heap[c].upvalues : gc.heap[c].upvalues[k] = u

OpenUpvalueShared ==
  \E u \in OpenSet : \E c1, c2 \in LiveClosures(gc) :
    c1 # c2 /\ Captures(c1, u) /\ Captures(c2, u)

\* C9: a closure has as many upvalues as its function has upvalue
\* descriptors, and the compiler emitted that many (is_local, index) pairs
\* after the CLOSURE opcode and its constant index, so that the instruction
\* after a CLOSURE the compiler emitted is decoded at the offset of an
\* opcode.
OperandsEnd(g, chunk, o) ==
  o + 2 + 2 * Len(g.heap[chunk.constants[chunk.code[o + 2] + 1].v].upvalues)

NextOpcode(chunk, later) ==
  IF later = {} THEN Len(chunk.code)
  ELSE CHOOSE o \in later : \A p \in later : o <= p

ClosureOperandsEmitted(g, chunk) ==
  \A o \in chunk.opcodes :
    chunk.code[o + 1] = OpCode("CLOSURE")
      => NextOpcode(chunk, {p \in chunk.opcodes : p > o})
           = OperandsEnd(g, chunk, o)

ClosureComplete(g, c) ==
  g.heap[c].function # NULL
    => Len(g.heap[c].upvalues) = Len(g.heap[g.heap[c].function].upvalues)

FrameAtOpcode(g, frame) ==
  frame.ip \in g.heap[g.heap[frame.closure].function].chunk.opcodes

ClosureOperandsMatch ==
  /\ \A h \in LiveFunctions(gc) : ClosureOperandsEmitted(gc, gc.heap[h].chunk)
  /\ \A c \in LiveClosures(gc) : ClosureComplete(gc, c)
  /\ (pc = "run" /\ step.op = "CLOSURE" /\ FrameAtOpcode(gc, StepFrame))
       => FrameAtOpcode(gc, SameFrame)

\* CLOSURE has just pushed a closure with two upvalues.
ClosureWithTwoUpvalues ==
  /\ pc = "run"
  /\ stack # <<>>
  /\ stack[Len(stack)].t = "obj"
  /\ stack[Len(stack)].v \in LiveClosures(gc)
  /\ Len(gc.heap[stack[Len(stack)].v].upvalues) >= 2

\* C10: for every active call frame f, f.stack_start <= stack.size() and
\* the value at stack[f.stack_start] is a closure.
FrameOnClosure(frame) ==
  /\ frame.stack_start <= Len(stack)
  /\ frame.stack_start < Len(stack)
  /\ stack[frame.stack_start + 1].t = "obj"
  /\ stack[frame.stack_start + 1].v \in LiveClosures(gc)

CallFrameConsistency ==
  \A i \in DOMAIN call_frames : FrameOnClosure(call_frames[i])

\* The callee slot of a CALL.
StepCallee == step.stack[Len(step.stack) - StepOperand(1)]

CalledClosure ==
  /\ step.op = "CALL"
  /\ StepCallee.t = "obj"
  /\ step.heap[StepCallee.v].type = "CLOSURE"

CalleeArity == step.heap[step.heap[StepCallee.v].function].arity

\* The frames after a CALL that pushed one: the caller past the operand of
\* its CALL, and the frame of the callee on its slot.
FramesAfterCall ==
  Append([step.call_frames EXCEPT ![Len(step.call_frames)].ip = @ + 2],
         [closure |-> StepCallee.v, ip |-> 0,
          stack_start |-> Len(step.stack) - StepOperand(1) - 1])

\* A CALL whose nargs is not the arity of the closure: a runtime error, no
\* frame pushed, the value stack as it was.
ArityMismatchRaises ==
  (CalledClosure /\ CalleeArity # StepOperand(1)) =>
    /\ thrown.executed = executed
    /\ result = "RUNTIME_ERROR"
    /\ Len(call_frames) = Len(step.call_frames)
    /\ stack = step.stack

\* C12 as stated: CALL nargs on a closure of arity nargs pushes exactly one
\* frame with ip = 0 and stack_start = stack.size() - nargs - 1; with another
\* arity it raises a runtime error, pushes no frame and leaves the value
\* stack unchanged.
CallPushesFrame ==
  /\ (CalledClosure /\ CalleeArity = StepOperand(1)) =>
       /\ call_frames = FramesAfterCall
       /\ stack = step.stack
       /\ pc = "run"
  /\ ArityMismatchRaises

\* C12, amended: the frame is pushed when fewer than 64 frames are active.
CallPushesFrameBelowLimit ==
  /\ (/\ CalledClosure
      /\ CalleeArity = StepOperand(1)
      /\ Len(step.call_frames) < MAX_CALL_FRAMES) =>
       /\ call_frames = FramesAfterCall
       /\ stack = step.stack
       /\ pc = "run"
  /\ ArityMismatchRaises

\* A closure of one parameter was called with one argument.
CalledWithArgument ==
  /\ CalledClosure
  /\ StepOperand(1) = 1
  /\ CalleeArity = 1
  /\ call_frames = FramesAfterCall
  /\ call_frames[Len(call_frames)].stack_start = Len(stack) - 2

\* A RETURN executed in a frame that is not the last one.
ReturnedToCaller == step.op = "RETURN" /\ Len(step.call_frames) > 1

\* The open upvalues the RETURN found at or above the frame's first slot.
ClosedByReturn ==
  {step.open_upvalues[i] : i \in
     {j \in DOMAIN step.open_upvalues :
        step.heap[step.open_upvalues[j]].location.idx >= StepFrame.stack_start}}

OpenBelowFrame(u) == u \notin ClosedByReturn

\* The frame RETURN goes back to stands behind the operand of a CALL.
BehindCall(frame) ==
  LET chunk == gc.heap[gc.heap[frame.closure].function].chunk
  IN /\ frame.ip - 2 \in chunk.opcodes
     /\ chunk.code[frame.ip - 1] = OpCode("CALL")

\* C13: RETURN from a frame that is not the last one closes every open
\* upvalue at or above the frame's first slot, truncates the value stack to
\* stack_start, pushes the return value and pops exactly that frame: callee
\* and arguments are replaced by one value and the caller goes on behind its
\* CALL.
ReturnUnwindsFrame ==
  ReturnedToCaller =>
    /\ stack = Append(SubSeq(step.stack, 1, StepFrame.stack_start),
                      step.stack[Len(step.stack)])
    /\ call_frames = SubSeq(step.call_frames, 1, Len(step.call_frames) - 1)
    /\ BehindCall(call_frames[Len(call_frames)])
    /\ open_upvalues = SelectSeq(step.open_upvalues, OpenBelowFrame)
    /\ \A u \in ClosedByReturn :
         /\ gc.heap[u].location = OwnClosed
         /\ gc.heap[u].closed = step.stack[step.heap[u].location.idx + 1]
    /\ pc = "run"

\* A function called with an argument returned, and the RETURN closed an
\* upvalue of its frame.
ReturnClosedUpvalue ==
  /\ ReturnedToCaller
  /\ ClosedByReturn # {}
  /\ Len(step.stack) > StepFrame.stack_start + 2
  /\ Len(stack) = StepFrame.stack_start + 1

\* A CALL whose callee slot holds a class.
CalledClass ==
  /\ step.op = "CALL"
  /\ StepCallee.t = "obj"
  /\ step.heap[StepCallee.v].type = "CLASS"

\* class C {} print C();
EmptyClassCall == <<ClassDecl("C"), RBrace, PrintStmt(Call(Ref("C"), <<>>))>>

\* C14: CALL on a class puts a new instance of it in the callee slot; a
\* class without init takes no arguments, so the source EmptyClassCall ends
\* with OK after it printed the instance.
ClassCallConstructsInstance ==
  /\ (CalledClass /\ thrown = NoThrow) =>
       /\ stack[Len(step.stack) - StepOperand(1)].t = "obj"
       /\ gc.heap[stack[Len(step.stack) - StepOperand(1)].v].type = "INSTANCE"
  /\ (pc = "done" /\ source = EmptyClassCall) =>
       /\ result = "OK"
       /\ Len(output) = 1

\* Scenario 3: the source above with mk, inc and three calls of c.
Scenario3 ==
  /\ Len(source) = 12
  /\ source[1] = FunDecl("mk", <<>>)
  /\ source[9] = VarDecl("c", Call(Ref("mk"), <<>>))
  /\ \A i \in 10..12 : source[i] = PrintStmt(Call(Ref("c"), <<>>))

\* The upvalue of the closure bound to the global c: the captured x.
CapturedX == gc.heap[globals["c"].v].upvalues[1]

\* C15: once mk has returned and its closure is bound to c, the captured x
\* lives in the closed field of the upvalue, no stack slot and no entry of
\* open_upvalues refers to the local, and every call of c finds the value the
\* call before it left: the lines printed are 1, 2, 3 and x is 3 at the end.
ClosureKeepsVariable ==
  (Scenario3 /\ pc \in {"run", "done"} /\ "c" \in DOMAIN globals) =>
    /\ gc.heap[CapturedX].location = OwnClosed
    /\ open_upvalues = <<>>
    /\ \A h \in LiveUpvalues(gc) : ~gc.heap[h].location.on_stack
    /\ output = SubSeq(<<"1", "2", "3">>, 1, Len(output))
    /\ gc.heap[CapturedX].closed.t = "num"
    /\ gc.heap[CapturedX].closed.v \in {Len(output), Len(output) + 1}
    /\ pc = "done" =>
         /\ result = "OK"
         /\ output = <<"1", "2", "3">>
         /\ gc.heap[CapturedX].closed = Number(3)
         /\ stack = <<>>

\* The third call of c has printed 3.
ThirdCallPrinted ==
  /\ Scenario3
  /\ step.op = "PRINT"
  /\ output = <<"1", "2", "3">>
  /\ gc.heap[CapturedX].closed = Number(3)

\* The value on top of the stack before the instruction.
StepTop == step.stack[Len(step.stack)]

\* The 16-bit operand of a jump, as a signed offset.
StepJumpOffset ==
  LET u == StepOperand(1) * 256 + StepOperand(2)
  IN IF u >= 32768 THEN u - 65536 ELSE u

\* C16: JUMP_IF_FALSE moves ip behind its two operand bytes and adds the
\* offset exactly when the top of the stack is nil or false; numbers, 0
\* among them, and objects, the empty string among them, do not jump.  The
\* value stack is unchanged.  No offset the compiler emits is 0, so the two
\* outcomes differ.
JumpIfFalseOnFalsy ==
  step.op = "JUMP_IF_FALSE" =>
    /\ stack = step.stack
    /\ thrown = NoThrow
    /\ StepJumpOffset # 0
    /\ SameFrame.ip = StepFrame.ip + 3 +
         (IF StepTop = Nil \/ StepTop = Bool(FALSE) THEN StepJumpOffset ELSE 0)

\* JUMP_IF_FALSE found the number 0 on top and did not jump.
ZeroDoesNotJump ==
  /\ step.op = "JUMP_IF_FALSE"
  /\ StepTop = Number(0)
  /\ SameFrame.ip = StepFrame.ip + 3

\* The operand below the top of the stack before the instruction.
StepSecond == step.stack[Len(step.stack) - 1]

IsString(heap, value) == value.t = "obj" /\ heap[value.v].type = "STRING"

\* The two operands of the instruction are strings of the same content.
SameContent ==
  /\ IsString(step.heap, StepSecond)
  /\ IsString(step.heap, StepTop)
  /\ step.heap[StepSecond.v].value = step.heap[StepTop.v].value

\* C17: EQUAL replaces its two operands by one boolean, true exactly when
\* they are the same alternative of the variant with the same payload: both
\* nil, the same boolean, the same number or the same object.  Two strings of
\* the same content are the same object, also when ADD made them.
EqualComparesValues ==
  step.op = "EQUAL" =>
    /\ thrown = NoThrow
    /\ stack = Append(SubSeq(step.stack, 1, Len(step.stack) - 2),
                      Bool(StepSecond = StepTop))
    /\ SameContent => stack[Len(stack)] = Bool(TRUE)

\* EQUAL found two strings "ab", both made by ADD: the chunk has no such
\* constant.
ConcatenationsEqual ==
  /\ step.op = "EQUAL"
  /\ SameContent
  /\ step.heap[StepTop.v].value = "ab"
  /\ \A c \in DOMAIN step.heap[step.heap[StepFrame.closure].function].chunk.constants :
       LET k == step.heap[step.heap[StepFrame.closure].function].chunk.constants[c]
       IN IsString(step.heap, k) => step.heap[k.v].value # "ab"
  /\ stack[Len(stack)] = Bool(TRUE)

\* The instruction executed last raised a std::runtime_error.
StepRaised == thrown.what # "" /\ thrown.executed = executed

\* C18: NEGATE, ADD, SUBTRACT, MULTIPLY, DIVIDE, GREATER and LESS raise the
\* runtime error for operands of the wrong type before they change
\* anything: the value stack at the error is the stack before the
\* instruction.
OperandErrorLeavesStack ==
  (/\ step.op \in {"NEGATE", "ADD", "SUBTRACT", "MULTIPLY", "DIVIDE",
                   "GREATER", "LESS"}
   /\ StepRaised) =>
    stack = step.stack

\* The constant an instruction names by its operand, as a string.
StepName ==
  step.heap[step.heap[step.heap[StepFrame.closure].function]
              .chunk.constants[StepOperand(1) + 1].v].value

\* The upvalue an instruction names by its operand.
StepUpvalue == step.heap[StepFrame.closure].upvalues[StepOperand(1) + 1]

\* C19: SET_LOCAL, SET_UPVALUE and SET_GLOBAL copy the top of the stack into
\* their target and pop nothing: the stack keeps its height and its top, and
\* the only slot that may change is the local, or the slot an open upvalue
\* points to.
SetKeepsStack ==
  /\ (step.op = "SET_GLOBAL" /\ ~StepRaised) =>
       /\ stack = step.stack
       /\ globals = [step.globals EXCEPT ![StepName] = StepTop]
  /\ (step.op = "SET_LOCAL" /\ ~StepRaised) =>
       /\ stack = [step.stack EXCEPT
                     ![StepFrame.stack_start + StepOperand(1) + 1] = StepTop]
       /\ stack[Len(stack)] = StepTop
       /\ globals = step.globals
  /\ (step.op = "SET_UPVALUE" /\ ~StepRaised) =>
       /\ stack[Len(stack)] = StepTop
       /\ globals = step.globals
       /\ IF step.heap[StepUpvalue].location.on_stack
          THEN /\ stack = [step.stack EXCEPT
                             ![step.heap[StepUpvalue].location.idx + 1] = StepTop]
               /\ gc.heap = step.heap
          ELSE /\ stack = step.stack
               /\ gc.heap = [step.heap EXCEPT ![StepUpvalue].closed = StepTop]

\* SET_UPVALUE stored through an open upvalue into a slot below the top.
StoredThroughOpenUpvalue ==
  /\ step.op = "SET_UPVALUE"
  /\ step.heap[StepUpvalue].location.on_stack
  /\ stack # step.stack
  /\ Len(stack) = Len(step.stack)
  /\ stack[step.heap[StepUpvalue].location.idx + 1] = StepTop

\* GET_GLOBAL or SET_GLOBAL of a name that is not in the globals table.
MissingGlobal ==
  /\ step.op \in {"GET_GLOBAL", "SET_GLOBAL"}
  /\ StepName \notin DOMAIN step.globals

\* C20: GET_GLOBAL and SET_GLOBAL of a name without an entry raise a runtime
\* error and leave the globals table as it was, so SET_GLOBAL creates no
\* binding; the table gets a new name from DEFINE_GLOBAL only.
UndefinedGlobalRaises ==
  /\ MissingGlobal =>
       /\ StepRaised
       /\ thrown.what = "undefined variable " \o StepName
       /\ result = "RUNTIME_ERROR"
       /\ globals = step.globals
  /\ (step.op # "" /\ DOMAIN globals # DOMAIN step.globals) =>
       /\ step.op = "DEFINE_GLOBAL"
       /\ DOMAIN globals = DOMAIN step.globals \cup {StepName}

\* x = 1; with no x: SET_GLOBAL raised and x is still not a global.
AssignedUndefined ==
  /\ step.op = "SET_GLOBAL"
  /\ MissingGlobal
  /\ StepRaised
  /\ StepName \notin DOMAIN globals

\* The chunks of the functions on the heap.
Chunks == {gc.heap[h].chunk : h \in LiveFunctions(gc)}

\* The distance patch_jump computes for the pair p = <<jump_byte, target_byte>>.
Distance(p) == p[2] - p[1] - 2

Fits(p) == Distance(p) >= -32768 /\ Distance(p) <= 32767

StepChunk == step.heap[step.heap[StepFrame.closure].function].chunk

\* The instruction was a jump that is taken: JUMP, or JUMP_IF_FALSE on nil
\* or false.
StepJumps ==
  \/ step.op = "JUMP"
  \/ step.op = "JUMP_IF_FALSE" /\ StepTop \in {Nil, Bool(FALSE)}

\* C21: for every jump that patch_jump patched to a target t with a distance
\* t - j - 2 in -32768..32767, forward or backward, the two operand bytes
\* at j are the distance modulo 2^16 with the high byte first,
\* get_jump_offset gives the distance back, and the VM that executes the
\* jump is at ip = t afterwards.
JumpRoundTrip ==
  /\ \A chunk \in Chunks : \A p \in chunk.targets :
       Fits(p) =>
         /\ chunk.code[p[1] + 1] * 256 + chunk.code[p[1] + 2]
              = (Distance(p) + 65536) % 65536
         /\ get_jump_offset(chunk.code[p[1] + 1], chunk.code[p[1] + 2])
              = Distance(p)
  /\ StepJumps =>
       \E p \in StepChunk.targets :
         /\ p[1] = StepFrame.ip + 1
         /\ Fits(p)
         /\ thrown = NoThrow
         /\ SameFrame.ip = p[2]

\* The jump at the end of a while loop went back by 32768 bytes to the start
\* of the loop.
JumpedBackFarthest ==
  /\ step.op = "JUMP"
  /\ StepJumpOffset = -32768
  /\ SameFrame.ip = StepFrame.ip + 3 - 32768
  /\ <<StepFrame.ip + 1, SameFrame.ip>> \in StepChunk.targets

\* C22: a jump whose distance does not fit in 16 bits leaves the error
\* "Too much code to jump over." in the parser and the two placeholder
\* bytes in the chunk, and the code is never run.
JumpTooFarIsError ==
  \A chunk \in Chunks : \A p \in chunk.targets :
    ~Fits(p) =>
      /\ chunk.code[p[1] + 1] = 255 /\ chunk.code[p[1] + 2] = 255
      /\ parser.errmsg # NoError
      /\ parser.errmsg[1] = "Too much code to jump over."
      /\ pc # "run"
      /\ result # "OK"
      /\ executed = 0

\* The compilation of an if statement whose body is one byte too long has
\* ended.
IfBodyTooLong ==
  /\ pc = "done"
  /\ \E chunk \in Chunks : \E p \in chunk.targets : Distance(p) = 32768

TooManyConstants == "Too many constants in one chunk."

\* C23 as stated: a chunk that has received its 256th constant has a compile
\* error recorded.
Constant256IsError ==
  \A chunk \in Chunks :
    Len(chunk.constants) >= 256 => parser.errmsg # NoError

\* C23: the constant with index 256, the 257th of a chunk, is the first one
\* that make_constant reports: while a chunk has more than 256 constants the
\* parser holds the compile error, and the error is recorded for no chunk
\* with fewer.
Constant257IsError ==
  /\ \A chunk \in Chunks :
       Len(chunk.constants) > 256 =>
         /\ parser.errmsg # NoError
         /\ parser.errmsg[1] = TooManyConstants
  /\ (parser.errmsg # NoError /\ parser.errmsg[1] = TooManyConstants) =>
       \E chunk \in Chunks : Len(chunk.constants) > 256

\* The 257th constant was added to the top-level chunk and compilation has
\* ended.
AddedConstant257 ==
  /\ pc = "done"
  /\ source = ManyConstants(257)
  /\ \E chunk \in Chunks : Len(chunk.constants) = 257
  /\ parser.errmsg[1] = TooManyConstants

\* Compilation ended without an instruction being run while a function had
\* all 256 local slots taken.
TooManyLocals ==
  /\ pc = "done"
  /\ executed = 0
  /\ \E i \in DOMAIN parser.compilers : Len(parser.compilers[i].locals) >= 256

\* C24: the declaration of one local variable more than a function can hold
\* sets the parser's error, and interpret() reports a compile error.
LocalLimitIsCompileError ==
  TooManyLocals => parser.errmsg # NoError /\ result = "COMPILE_ERROR"

\* The compiler that is current, and the locals of its innermost scope.
Innermost == parser.compilers[Len(parser.compilers)]

InScope == {i \in DOMAIN Innermost.locals :
              Innermost.locals[i].depth = Innermost.scope_depth}

\* The next declaration is var name ...; and the loop of parse or block will
\* take it.
DeclaresVar == CanDeclare /\ Current.k = "var"

\* The name of the declaration is the name of a local of the innermost scope.
DeclaredInScope ==
  \E i \in InScope : Innermost.locals[i].name = Current.name

\* The name was declared by an earlier var at depth 0: nothing but var,
\* print and expression statements came before.
DeclaredGlobal ==
  /\ \A j \in 1..(parser.pos - 1) : source[j].k \in {"var", "print", "expr"}
  /\ \E j \in 1..(parser.pos - 1) :
       source[j].k = "var" /\ source[j].name = Current.name

AlreadyDeclared(name) == "variable '" \o name \o "' already declared in this scope"

\* C25 as stated: a var declaration of a name already declared at the same
\* scope depth, depth 0 included, records a compile error.
RedeclarationIsErrorStep ==
  (DeclaresVar /\ (IF Innermost.scope_depth > 0 THEN DeclaredInScope
                   ELSE DeclaredGlobal))
    => parser'.errmsg # NoError

RedeclarationStep ==
  (DeclaresVar /\ Len(Innermost.locals) < 256) =>
    IF Innermost.scope_depth > 0
    THEN IF DeclaredInScope
         THEN /\ parser'.errmsg = <<AlreadyDeclared(Current.name), parser.pos>>
              /\ parser'.compilers[Len(parser.compilers)].locals
                   = Innermost.locals
         ELSE /\ parser'.errmsg = NoError
              /\ parser'.compilers[Len(parser.compilers)].locals
                   = Append(Innermost.locals,
                            Local(Innermost.scope_depth, Current.name))
    ELSE DeclaredGlobal => parser'.errmsg = NoError

ReturnedFromCall == step.op = "RETURN" /\ Len(step.call_frames) > 1

\* The RETURN was emitted for a return statement with a value.
ExplicitReturn == StepFrame.ip \in StepChunk.returns

\* C26: when a called function returns through the RETURN the compiler put
\* at the end of its body or emitted for a bare return, the value the call
\* leaves on the caller's stack is nil; so the result of a call is a value
\* other than nil only after the RETURN of a return statement with a value.
ImplicitReturnIsNil ==
  ReturnedFromCall =>
    /\ thrown = NoThrow
    /\ Len(stack) = StepFrame.stack_start + 1
    /\ ~ExplicitReturn => stack[Len(stack)] = Nil
    /\ stack[Len(stack)] # Nil => ExplicitReturn

\* A bare return in the middle of a function body handed nil to the caller.
BareReturnGaveNil ==
  /\ ReturnedFromCall
  /\ ~ExplicitReturn
  /\ StepFrame.ip + 1 < Len(StepCode)
  /\ stack[Len(stack)] = Nil

\* C27: the error the parser holds is the first one that was recorded, and
\* no byte is emitted once an error is recorded.
FirstErrorKept ==
  /\ parser.errmsg = parser.first
  /\ ~parser.late

\* The statements compiled so far whose expression is followed by a '=' that
\* no rule consumed.
LeftoverEqual ==
  {j \in 1..(parser.pos - 1) :
     /\ source[j].k = "expr"
     /\ source[j].e[1] = "leftover"}

\* C28: after an expression statement whose expression is followed by a
\* leftover '=', the error the compiler holds is "invalid assignment target".
LeftoverEqualIsInvalidTarget ==
  LeftoverEqual # {} =>
    /\ parser.errmsg # NoError
    /\ parser.errmsg[1] = "invalid assignment target"

\* The last call of debuginfo_at, when there was one for an offset inside the
\* code.
LastLookup == looked_up[Len(looked_up)]

LookedUpInside ==
  /\ looked_up # NoLookups
  /\ LastLookup.bytecode_offset < Len(lox_chunk.code)

\* C29: debuginfo_at for an offset inside the code returns the line that was
\* passed to the write call of the byte at that offset, and every element it
\* read was an entry of the line table.
DebuginfoAtIsLineWritten ==
  LookedUpInside =>
    /\ LastLookup.outcome.kind = "line"
    /\ LastLookup.outcome.line =
         lox_chunk.lines[LastLookup.bytecode_offset + 1]

\* C30: of two calls of debuginfo_at for offsets o1 <= o2 inside the code,
\* the first returns a line that is not greater than the line the second
\* returns.
DebuginfoAtNonDecreasing ==
  \A i, j \in DOMAIN looked_up :
    /\ looked_up[i].bytecode_offset <= looked_up[j].bytecode_offset
    /\ looked_up[j].bytecode_offset < Len(lox_chunk.code)
    => /\ looked_up[i].outcome.kind = "line"
       /\ looked_up[j].outcome.kind = "line"
       /\ looked_up[i].outcome.line <= looked_up[j].outcome.line

\* The sequence longer is the sequence shorter with one element appended.
OneAppended(shorter, longer) ==
  /\ Len(longer) = Len(shorter) + 1
  /\ SubSeq(longer, 1, Len(shorter)) = shorter

\* Chunk::write appends one byte and leaves the constants alone.
WriteFrame ==
  WriteByte =>
    /\ OneAppended(lox_chunk.code, lox_chunk'.code)
    /\ lox_chunk'.constants = lox_chunk.constants

\* Chunk::push_constant appends one constant, returns the size the table had
\* before, and leaves the code and the line table alone.
PushConstantFrame ==
  PushConstant =>
    /\ OneAppended(lox_chunk.constants, lox_chunk'.constants)
    /\ pushed' = <<Len(lox_chunk.constants)>>
    /\ lox_chunk'.code = lox_chunk.code
    /\ lox_chunk'.debuginfo = lox_chunk.debuginfo

\* Chunk::Chunk
NewChunkIsEmpty ==
  /\ Len(lox_chunk.code) = 0
  /\ Len(lox_chunk.constants) = 0
  /\ Len(lox_chunk.debuginfo) = 0

\* C31: a new chunk has no code, no constants and no line-table entries;
\* every write appends exactly one byte and leaves the constants unchanged;
\* every push_constant appends exactly one constant, returns the number of
\* constants there were before, and leaves code and line table unchanged.
ChunkFrameEffects ==
  NewChunkIsEmpty /\ [][WriteFrame /\ PushConstantFrame]_vars

\* A second constant was pushed to a chunk that has code: the call returned 1.
PushedSecondConstant ==
  /\ pushed = <<1>>
  /\ Len(lox_chunk.code) > 1
  /\ Len(lox_chunk.debuginfo) > 1

\* The child references of an object: a function's constants, an upvalue's
\* closed value, a closure's function and upvalues, a class's method
\* closures, an instance's class and field values, a bound method's receiver
\* and method.
Children(o) ==
  CASE o.type = "FUNCTION" -> ValueRefs(o.chunk.constants)
    [] o.type = "UPVALUE" -> ValueRefs(<<o.closed>>)
    [] o.type = "CLOSURE" ->
         ({o.function} \cup {o.upvalues[i] : i \in DOMAIN o.upvalues}) \ {NULL}
    [] o.type = "CLASS" -> {o.methods[k] : k \in DOMAIN o.methods} \ {NULL}
    [] o.type = "INSTANCE" ->
         ({o.klass} \cup {o.fields[k].v :
                            k \in {j \in DOMAIN o.fields :
                                     o.fields[j].t = "obj"}}) \ {NULL}
    [] o.type = "BOUND_METHOD" -> {o.receiver, o.method} \ {NULL}
    [] OTHER -> {}

\* The objects the loop of GC::gc has popped off the grey stack so far.
Popped == {marking.popped[i] : i \in DOMAIN marking.popped}

\* C32: while GC::gc propagates, every child reference of every object it
\* has popped off the grey stack is marked, whatever the object's class.
PoppedChildrenMarked ==
  marking.phase = "gc" =>
    \A h \in Popped : \A c \in Children(gc.heap[h]) : gc.heap[c].is_marked

NoDuplicates(seq) == \A i, j \in DOMAIN seq : seq[i] = seq[j] => i = j

\* Since the caller began to mark, no object was pushed on the grey stack
\* twice, and the loop popped only what was pushed, each object once.
PushedOnce ==
  /\ NoDuplicates(marking.pushed)
  /\ NoDuplicates(marking.popped)
  /\ Popped \subseteq {marking.pushed[i] : i \in DOMAIN marking.pushed}

\* mark_as_grey leaves the collector as it is for a value that is no object,
\* for the null pointer and for an object that is marked.
MarkIsIdempotent ==
  /\ \A value \in {Nil, Bool(TRUE), Number(1)} :
       mark_value_as_grey(gc, value) = gc
  /\ mark_as_grey(gc, NULL) = gc
  /\ \A h \in DOMAIN gc.heap :
       gc.heap[h].is_marked =>
         /\ mark_as_grey(gc, h) = gc
         /\ mark_value_as_grey(gc, ObjVal(h)) = gc

\* C39: every collection pushes and pops each object at most once, marking
\* a non-object value or a marked object changes nothing, and GC::gc, once
\* called, empties the grey stack and completes the sweep, on every object
\* graph, cyclic ones included.
MarkPhaseTerminates ==
  /\ [](PushedOnce /\ MarkIsIdempotent)
  /\ (marking.phase = "gc") ~> (marking.phase = "swept")

\* A closure and the closed upvalue it captures, which holds that closure,
\* went through a collection: both were popped once and both survived.
CycleCollected ==
  /\ marking.phase = "swept"
  /\ \E c \in OfType(gc.heap, "CLOSURE"), u \in OfType(gc.heap, "UPVALUE") :
       /\ gc.heap[c].upvalues = <<u>>
       /\ gc.heap[u].closed = ObjVal(c)
       /\ {c, u} \subseteq Popped

(***************************************************************************)
(* Resolution of variable references                                       *)
(***************************************************************************)
\* The compiler at level l has a local called name.
HasLocal(r, l) == \E i \in DOMAIN r.locals[l] : r.locals[l][i].name = r.name

\* The slot of the most recently declared local called name at level l.
NewestLocal(r, l) ==
  LET n == CHOOSE i \in DOMAIN r.locals[l] :
             /\ r.locals[l][i].name = r.name
             /\ \A j \in DOMAIN r.locals[l] :
                  r.locals[l][j].name = r.name => j <= i
  IN  n - 1

\* The level and slot of the local that upvalue idx of the function at
\* level l captures, following the descriptors outwards.
RECURSIVE Origin(_, _, _)
Origin(r, l, idx) ==
  LET d == r.upvalues[l][idx + 1]
  IN  IF d.is_local THEN <<l - 1, d.index>> ELSE Origin(r, l - 1, d.index)

\* The nearest level outside level n with a local called name.
NearestHolder(r) ==
  LET n == Len(r.locals)
  IN  CHOOSE l \in 1..(n - 1) :
        /\ HasLocal(r, l)
        /\ \A m \in 1..(n - 1) : HasLocal(r, m) => m <= l

ResolvedAsScoped(r) ==
  LET n == Len(r.locals)
  IN  IF HasLocal(r, n)
      THEN r.kind = "local" /\ r.index = NewestLocal(r, n)
      ELSE IF \E l \in 1..(n - 1) : HasLocal(r, l)
      THEN /\ r.kind = "upvalue"
           /\ r.index \in 0..(Len(r.upvalues[n]) - 1)
           /\ Origin(r, n, r.index)
                = <<NearestHolder(r), NewestLocal(r, NearestHolder(r))>>
      ELSE r.kind = "global"

\* C33: a variable reference resolves to the most recently declared local of
\* that name still in scope in the current function; if there is none, to an
\* upvalue for the nearest enclosing function that has such a local; and to
\* a global only when no enclosing function has a local of that name.
ResolutionOrder ==
  \A i \in DOMAIN parser.resolved : ResolvedAsScoped(parser.resolved[i])

\* A reference in a function two levels inside the function that holds the
\* local, which shadows another local of the same name.
ResolvedThroughTwoFunctions ==
  \E i \in DOMAIN parser.resolved :
    LET r == parser.resolved[i]
    IN  /\ r.kind = "upvalue"
        /\ ~r.upvalues[Len(r.locals)][r.index + 1].is_local
        /\ \E l \in 1..(Len(r.locals) - 1) :
             Cardinality({j \in DOMAIN r.locals[l] :
                            r.locals[l][j].name = r.name}) > 1

ResolvedShadowedLocal ==
  \E i \in DOMAIN parser.resolved :
    LET r == parser.resolved[i]
    IN  /\ r.kind = "local"
        /\ Cardinality({j \in DOMAIN r.locals[Len(r.locals)] :
                          r.locals[Len(r.locals)][j].name = r.name}) > 1

ResolvedGlobalInsideFunction ==
  \E i \in DOMAIN parser.resolved :
    parser.resolved[i].kind = "global" /\ Len(parser.resolved[i].locals) > 1

(***************************************************************************)
(* Upvalue descriptors                                                     *)
(***************************************************************************)
\* Two resolutions of one captured variable in one function.
SameCapture(r1, r2) ==
  /\ r1.kind = "upvalue" /\ r2.kind = "upvalue"
  /\ r1.fn = r2.fn /\ r1.name = r2.name
  /\ Origin(r1, Len(r1.locals), r1.index) = Origin(r2, Len(r2.locals), r2.index)

SameCaptureSameIndex ==
  \A i, j \in DOMAIN parser.resolved :
    SameCapture(parser.resolved[i], parser.resolved[j])
      => parser.resolved[i].index = parser.resolved[j].index

DescriptorsDistinct ==
  \A p \in OfType(gc.heap, "FUNCTION") : NoDuplicates(gc.heap[p].upvalues)

\* The descriptors of the function at level l of the chain of compilers.
DescriptorsAt(l) == gc.heap[parser.compilers[l].current_function].upvalues

DescriptorValid(l, d) ==
  IF d.is_local
  THEN /\ d.index + 1 \in DOMAIN parser.compilers[l - 1].locals
       /\ parser.compilers[l - 1].locals[d.index + 1].is_captured
  ELSE d.index \in 0..(Len(DescriptorsAt(l - 1)) - 1)

DescriptorsValid ==
  \A l \in DOMAIN parser.compilers :
    /\ l = 1 => DescriptorsAt(l) = <<>>
    /\ l > 1 => \A k \in DOMAIN DescriptorsAt(l) :
                  DescriptorValid(l, DescriptorsAt(l)[k])

\* C34: within one function, resolving the same captured variable again
\* returns the same upvalue index and the descriptor list of a function never
\* holds two equal (index, is_local) pairs; a descriptor with is_local
\* carries the slot of a captured local of the immediately enclosing
\* function, and one without is_local an index into the enclosing function's
\* descriptor list.
UpvalueDescriptors ==
  SameCaptureSameIndex /\ DescriptorsDistinct /\ DescriptorsValid

\* The same captured variable was resolved twice in a function that also
\* captures through its enclosing function, while that function is compiled.
CapturedTwice ==
  /\ \E i, j \in DOMAIN parser.resolved :
       i < j /\ SameCapture(parser.resolved[i], parser.resolved[j])
  /\ \E l \in DOMAIN parser.compilers :
       l > 1 /\ \E k \in DOMAIN DescriptorsAt(l) :
                  ~DescriptorsAt(l)[k].is_local

(***************************************************************************)
(* The end of a block scope                                                *)
(***************************************************************************)
\* The compiler that compiles the current item and the code of its function.
InnerCompiler == parser.compilers[Len(parser.compilers)]

InnerCode == gc.heap[InnerCompiler.current_function].chunk.code

\* The locals declared in the innermost scope.
ScopeLocals ==
  {i \in DOMAIN InnerCompiler.locals :
     InnerCompiler.locals[i].depth = InnerCompiler.scope_depth}

\* The instructions of the end of the innermost scope, newest local first.
ScopeEndCode ==
  LET locals == InnerCompiler.locals
  IN [k \in 1..Cardinality(ScopeLocals) |->
        OpCode(IF locals[Len(locals) - k + 1].is_captured
               THEN "CLOSE_UPVALUE" ELSE "POP")]

\* A step of the compiler that leaves a block.
LeavesBlock ==
  /\ pc = "compile" /\ Enclosing = "block"
  /\ parser'.ctx = SubSeq(parser.ctx, 1, Len(parser.ctx) - 1)

EndScopeFrame ==
  LeavesBlock =>
    /\ InnerCode' = InnerCode \o ScopeEndCode
    /\ InnerCompiler'.locals
         = SubSeq(InnerCompiler.locals, 1,
                  Len(InnerCompiler.locals) - Cardinality(ScopeLocals))
    /\ \A i \in DOMAIN InnerCompiler'.locals :
         InnerCompiler'.locals[i].depth < InnerCompiler.scope_depth

\* The slot an open upvalue points to is gone after the step: the stack ends
\* below it, or the step is a RETURN that cut the stack at the frame's start.
SlotRemoved(u) ==
  \/ gc.heap[u].location.idx >= Len(stack')
  \/ /\ pc = "run" /\ FetchedOp = "RETURN"
     /\ gc.heap[u].location.idx
          >= call_frames[Len(call_frames)].stack_start

ClosedFirst(u) ==
  /\ u \notin {open_upvalues'[i] : i \in DOMAIN open_upvalues'}
  /\ u \in DOMAIN gc'.heap =>
       /\ gc'.heap[u].location = OwnClosed
       /\ gc'.heap[u].closed = stack[gc.heap[u].location.idx + 1]

RemovedSlotsClosed ==
  \A u \in OpenSet : SlotRemoved(u) => ClosedFirst(u)

\* C35: at the end of a block scope the compiler emits exactly one
\* instruction per local declared in that scope, newest first, CLOSE_UPVALUE
\* for a captured local and POP otherwise; at run time no stack slot that
\* an open upvalue points to is removed without the upvalue being closed.
ScopeEndClosesUpvalues == [][EndScopeFrame /\ RemovedSlotsClosed]_vars

\* The end of a block with a captured and an uncaptured local was compiled,
\* and its CLOSE_UPVALUE closed an upvalue over a value.
BlockEndClosedUpvalue ==
  /\ pc = "run"
  /\ step.op = "CLOSE_UPVALUE"
  /\ \E f \in OfType(gc.heap, "FUNCTION") :
       \E o \in 1..(Len(gc.heap[f].chunk.code) - 1) :
         /\ gc.heap[f].chunk.code[o] = OpCode("POP")
         /\ gc.heap[f].chunk.code[o + 1] = OpCode("CLOSE_UPVALUE")
  /\ \E i \in DOMAIN step.open_upvalues :
       LET u == step.open_upvalues[i]
       IN  /\ u \in DOMAIN gc.heap
           /\ gc.heap[u].location = OwnClosed
           /\ gc.heap[u].closed # Nil

(***************************************************************************)
(* The stack and the compiler's locals                                     *)
(***************************************************************************)
RunningFrame == call_frames[Len(call_frames)]

RunningChunk == gc.heap[gc.heap[RunningFrame.closure].function].chunk

\* The values of the running frame: its slot 0 and what is above it.
FrameHeight == Len(stack) - RunningFrame.stack_start

StackInStep ==
  pc = "run" =>
    \A end \in RunningChunk.ends :
      RunningFrame.ip = end[1] => FrameHeight = end[2]

AtToplevelReturn ==
  /\ pc = "run"
  /\ Len(call_frames) = 1
  /\ RunningFrame.ip < Len(RunningChunk.code)
  /\ FetchedOp = "RETURN"

\* Under the value RETURN pops there is the top-level closure and nothing
\* else.
OnlyToplevelClosure ==
  AtToplevelReturn =>
    /\ Len(stack) = 2
    /\ stack[1] = ObjVal(RunningFrame.closure)

EmptyAtHalt == (pc = "done" /\ result = "OK") => stack = <<>>

\* C36: running compiled code keeps the stack in step with the compiler's
\* locals: after every complete statement the frame holds as many values as
\* the compiler had locals (if, while and for pop their condition once on
\* every path), the top-level RETURN finds only the top-level closure under
\* its operand, and the stack is empty at a halt with OK.
StackFollowsLocals == StackInStep /\ OnlyToplevelClosure /\ EmptyAtHalt

\* A for statement on a true variable ran its body once, its increment made
\* the variable false, and the run ended with OK.
LeftForLoop ==
  /\ pc = "done" /\ result = "OK" /\ stack = <<>>
  /\ source[2].e = <<"true">>
  /\ source[3].k = "for"
  /\ source[3].e[2] # <<>>
  /\ source[3].e[3] # <<>> /\ source[3].e[3][1] = "assign"

(***************************************************************************)
(* and, or                                                                 *)
(***************************************************************************)
IsLiteral(e) == e[1] \in {"number", "nil", "true", "false"}

LiteralValue(e) ==
  CASE e[1] = "number" -> Number(e[2])
    [] e[1] = "nil" -> Nil
    [] e[1] = "true" -> Bool(TRUE)
    [] e[1] = "false" -> Bool(FALSE)

\* The left operand decides the value of the expression.
ShortCircuited(entry) ==
  IF entry.rec.kind = "and" THEN entry.left \in {Nil, Bool(FALSE)}
  ELSE entry.left \notin {Nil, Bool(FALSE)}

ShortCircuitValue(entry) ==
  /\ Len(stack) = entry.base + 1
  /\ IF ShortCircuited(entry)
     THEN stack[Len(stack)] = entry.left /\ ~entry.ran
     ELSE /\ entry.ran
          /\ IsLiteral(entry.rec.e) =>
               stack[Len(stack)] = LiteralValue(entry.rec.e)

\* C37: the code of `a and b` and of `a or b` leaves one value in place of
\* the operands: a if a is falsy (and) or truthy (or), and then no
\* instruction of b was executed; otherwise the value of b.
ShortCircuit ==
  \A i \in DOMAIN shortcut.finished : ShortCircuitValue(shortcut.finished[i])

\* An and and an or each ended without their right operand, a call, and
\* each ended with its value.
AndSkippedCall ==
  \E i \in DOMAIN shortcut.finished :
    LET entry == shortcut.finished[i]
    IN  /\ entry.rec.kind = "and" /\ entry.rec.e[1] = "call"
        /\ ShortCircuited(entry)

OrSkippedCall ==
  \E i \in DOMAIN shortcut.finished :
    LET entry == shortcut.finished[i]
    IN  /\ entry.rec.kind = "or" /\ entry.rec.e[1] = "call"
        /\ ShortCircuited(entry)

AndReturnedCall ==
  \E i \in DOMAIN shortcut.finished :
    LET entry == shortcut.finished[i]
    IN  /\ entry.rec.kind = "and" /\ entry.rec.e[1] = "call"
        /\ ~ShortCircuited(entry)
        /\ stack[Len(stack)] = Number(2)

OrInsideAnd ==
  Len(shortcut.finished) = 2

(***************************************************************************)
(* The line table                                                          *)
(***************************************************************************)
\* C38: after any sequence of write, patch_at_offset, push_constant and
\* reset, the entries of the line table are in non-decreasing order of
\* offset, consecutive entries have different lines, and every entry's
\* offset is less than the size of the code.
LineTableWellFormed ==
  LET d == lox_chunk.debuginfo
  IN  /\ \A i \in 1..(Len(d) - 1) :
           /\ d[i].bytecode_offset <= d[i + 1].bytecode_offset
           /\ d[i].line # d[i + 1].line
      /\ \A i \in DOMAIN d : d[i].bytecode_offset < Len(lox_chunk.code)

(***************************************************************************)
(* The order of open_upvalues                                              *)
(***************************************************************************)
\* C40: open_upvalues is sorted in decreasing order of the stack slot each
\* upvalue points to, in every reachable state.
OpenUpvaluesDecreasing ==
  \A i, j \in DOMAIN open_upvalues :
    i < j => gc.heap[open_upvalues[i]].location.idx
               > gc.heap[open_upvalues[j]].location.idx

====
